---- MODULE Spec2Model ----
(***************************************************************************)
(* The ETL orchestrator of DWH-Helper (app/etl/orchestrator.py), its       *)
(* record transformer (app/etl/transformer.py), the batch insert of the    *)
(* warehouse repository (app/db/repository.py) and the host endpoint       *)
(* (app/etl/router.py), as a state machine.                                *)
(*                                                                         *)
(* Values.  None is written 0: ehr ids, ages, uuids and event times of     *)
(* real records are positive.  An Optional projection (Permanent?,         *)
(* Changeable?) and an Optional response field is a sequence of length 0   *)
(* or 1.  A changeable record carries one compared attribute, age, which   *)
(* stands for the fifteen attributes compare_changeable reads besides      *)
(* ehr_id; uuid, event_time and session_id are the three it skips.         *)
(***************************************************************************)
EXTENDS Integers, Sequences, FiniteSets, TLC

\* ------------------------------------------------------------------ bounds
MaxLines == 3
MaxResumeLines == 4
MaxRows == 3
MaxBatch == 2
MaxRuns == 2
MaxDay == 1
MaxParamsPerQuery == 36
SafetyNum == 9
SafetyDen == 10
MaxRowsPerInsert == 2
MaxInsertRows == 5
MaxCalls == 2
MaxWorkerRows == 2
MaxReaderDay == 2
MaxHistory == 3

\* ------------------------------------------------------- program constants
None == 0
BadInt == -1
TicksPerDay == 2
PermanentColumns == 8
ChangeableColumns == 18
EventsPartColumns == 13
MobileDevicesColumns == 7
TechnicalDataColumns == 9
TmpEventPropertiesColumns == 2
TmpUserPropertiesColumns == 7
UserLocationsColumns == 7
errors_total == 0

\* the values records are drawn from: an absent or sentinel EHR_ID (None) or
\* one user; an absent Age or one age
EhrValues == {None, 1}
AgeValues == {None, 1}

Min(a, b) == IF a < b THEN a ELSE b

\* -------------------------------------------------------------- transformer
TransformError(key, reason) == [key |-> key, reason |-> reason]

\* ehr_id resolution, transformer.py 110-122
resolve_ehr_id(raw) ==
    IF raw.EHR_ID = None THEN [ehr_id |-> None, errors |-> <<>>]
    ELSE IF raw.EHR_ID = BadInt
         THEN [ehr_id |-> None,
               errors |-> <<TransformError("EHR_ID", "Invalid integer")>>]
         ELSE [ehr_id |-> raw.EHR_ID, errors |-> <<>>]

\* extract_value for the integer mapping of age, transformer.py 125-182
extract_value(raw) ==
    IF raw.Age = None THEN [value |-> None, errors |-> <<>>]
    ELSE IF raw.Age = BadInt
         THEN [value |-> None,
               errors |-> <<TransformError("age", "Invalid integer")>>]
         ELSE [value |-> raw.Age, errors |-> <<>>]

transform_single_record(raw) ==
    IF raw.uuid = None
    THEN [permanent |-> <<>>, changeable |-> <<>>,
          errors |-> <<TransformError("uuid", "Expected str or UUID")>>]
    ELSE IF raw.event_time = None
    THEN [permanent |-> <<>>, changeable |-> <<>>,
          errors |-> <<TransformError("event_time", "Missing event_time")>>]
    ELSE IF raw.unknown_key
    THEN [permanent |-> <<>>, changeable |-> <<>>,
          errors |-> <<TransformError("CompletelyNewKey", "Unknown key")>>]
    ELSE
      LET e == resolve_ehr_id(raw)
          a == extract_value(raw)
          permanent ==
              IF e.ehr_id # None
              THEN <<[ehr_id |-> e.ehr_id, first_login_at |-> raw.event_time]>>
              ELSE <<>>
          changeable ==
              <<[ehr_id |-> e.ehr_id, uuid |-> raw.uuid,
                 event_time |-> raw.event_time, age |-> a.value,
                 session_id |-> raw.session_id]>>
      IN [permanent |-> permanent, changeable |-> changeable,
          errors |-> e.errors \o a.errors]

\* ---------------------------------------------------------- change detector
ChangeableFields == {"ehr_id", "uuid", "event_time", "age", "session_id"}

exclude == {"uuid", "event_time", "session_id"}

\* compare_changeable with event_time left out of the exclude set
compare_changeable_event_time(old, new) ==
    IF old = <<>> THEN TRUE
    ELSE \E f \in ChangeableFields \ {"uuid", "session_id"} : old[1][f] # new[f]

compare_changeable(old, new) ==
    IF old = <<>> THEN TRUE
    ELSE \E f \in ChangeableFields \ exclude : old[1][f] # new[f]

\* --------------------------------------------------------------- repository
Range(seq) == {seq[i] : i \in DOMAIN seq}

\* len(model_class.model_fields) of the tables of TABLE_MODEL_MAP; 20 for a
\* table that is not in it
ColumnCount(table) ==
    IF table = "permanent_user_properties" THEN PermanentColumns
    ELSE IF table = "changeable_user_properties" THEN ChangeableColumns
    ELSE IF table = "events_part" THEN EventsPartColumns
    ELSE IF table = "mobile_devices" THEN MobileDevicesColumns
    ELSE IF table = "technical_data" THEN TechnicalDataColumns
    ELSE IF table = "tmp_event_properties" THEN TmpEventPropertiesColumns
    ELSE IF table = "tmp_user_properties" THEN TmpUserPropertiesColumns
    ELSE IF table = "user_locations" THEN UserLocationsColumns
    ELSE 20

\* settings.db: max_params_per_query; safety_factor, a float the model takes
\* in tenths (safety_num / SafetyDen, SafetyDen = 10); max_rows_per_insert,
\* <<n>> when the settings have the attribute and <<>> when they have not
VARIABLE settings_db

\* The double nearest to k/10 lies below k/10 for 0.3, 0.6 and 0.7 and at or
\* above it for the other tenths: how far below, in tenths of 2^-53.
float_below(safety_num) ==
    IF safety_num = 3 THEN 1
    ELSE IF safety_num = 6 THEN 2
    ELSE IF safety_num = 7 THEN 4
    ELSE 0

\* the largest power of two that is no more than n, from p upwards
RECURSIVE binade(_, _)
binade(n, p) == IF 2 * p > n THEN p ELSE binade(n, 2 * p)

\* the product truncated as a product of exact numbers
int_product_exact(theoretical_max, safety_num) ==
    (theoretical_max * safety_num) \div SafetyDen

\* int(theoretical_max * safety_factor) in double arithmetic: the exact
\* quotient, except where the exact product is a whole number n and the
\* double of the factor lies so far below its tenth that the rounded product
\* is the double before n
int_product(theoretical_max, safety_num) ==
    LET n == (theoretical_max * safety_num) \div SafetyDen
        c == float_below(safety_num)
    IN IF (theoretical_max * safety_num) % SafetyDen # 0 \/ n = 0 \/ c = 0
       THEN n
       ELSE LET p == binade(n, 1)
                error == theoretical_max * c * (IF n = p THEN 2 ELSE 1)
            IN IF error > SafetyDen * p THEN n - 1 ELSE n

\* getattr(settings.db, "max_rows_per_insert", 10000)
configured_max ==
    IF settings_db.max_rows_per_insert = <<>> THEN 10000
    ELSE settings_db.max_rows_per_insert[1]

max_rows_for_table(table) ==
    LET theoretical_max == settings_db.max_params_per_query \div ColumnCount(table)
        safe_max == int_product(theoretical_max, settings_db.safety_num)
    IN Min(safe_max, configured_max)

\* rows[i : max_rows_per_batch], the slice that ends at the limit
chunk_to_limit(rows, i, max_rows_per_batch) ==
    SubSeq(rows, i + 1, Min(Len(rows), max_rows_per_batch))

\* rows[i : i + max_rows_per_batch]
chunk(rows, i, max_rows_per_batch) ==
    SubSeq(rows, i + 1, Min(Len(rows), i + max_rows_per_batch))

\* One INSERT ... VALUES (...), (...) [ON CONFLICT target DO NOTHING]
\* RETURNING col over `rows`, applied to the table contents `table`: a row
\* that conflicts on the target with a stored row (one stored by this same
\* statement included) is skipped and returns nothing.
RECURSIVE insert_batch_query(_, _, _, _, _)
insert_batch_query(table, rows, on_conflict, conflict_target, returning_column) ==
    IF rows = <<>> THEN [table |-> table, ids |-> <<>>]
    ELSE
      LET row == Head(rows)
          conflict ==
              /\ on_conflict = "DO NOTHING"
              /\ \E i \in DOMAIN table :
                    table[i][conflict_target] = row[conflict_target]
          rest == insert_batch_query(
                      IF conflict THEN table ELSE Append(table, row),
                      Tail(rows), on_conflict, conflict_target, returning_column)
      IN [table |-> rest.table,
          ids |-> IF conflict THEN rest.ids
                  ELSE <<row[returning_column]>> \o rest.ids]

RECURSIVE insert_chunks(_, _, _, _, _, _)
insert_chunks(table, rows, max_rows_per_batch, on_conflict, conflict_target, returning_column) ==
    IF rows = <<>> THEN [table |-> table, ids |-> <<>>, batches |-> 0]
    ELSE
      LET n == Len(chunk(rows, 0, max_rows_per_batch))
          q == insert_batch_query(table, chunk(rows, 0, max_rows_per_batch),
                                  on_conflict, conflict_target, returning_column)
          rest == insert_chunks(q.table, SubSeq(rows, n + 1, Len(rows)),
                                max_rows_per_batch, on_conflict, conflict_target,
                                returning_column)
      IN [table |-> rest.table, ids |-> q.ids \o rest.ids,
          batches |-> 1 + rest.batches]

\* insert_batch(table, rows, ...) on the stored rows `stored` of `table`
insert_batch(table, stored, rows, on_conflict, conflict_target, returning_column) ==
    insert_chunks(stored, rows, max_rows_for_table(table), on_conflict,
                  conflict_target, returning_column)

get_all_permanent_ehr_ids(stored) == {stored[i].ehr_id : i \in DOMAIN stored}

\* the partition of `eid` numbered with no ORDER BY: any of its rows may be
\* number 1
PartitionRows(stored, eid) == {r \in Range(stored) : r.ehr_id = eid}

\* the rows ROW_NUMBER() OVER (PARTITION BY ehr_id ORDER BY event_time DESC)
\* may number 1 for `eid`: every row of the partition with the greatest time
LatestRows(stored, eid) ==
    {r \in Range(stored) :
        /\ r.ehr_id = eid
        /\ \A o \in Range(stored) : o.ehr_id = eid => o.event_time <= r.event_time}

\* get_latest_changeable_for_ehrs without its `ehr_id IS NULL` query
get_latest_changeable_non_null(stored, ehr_ids) ==
    LET keys == {k \in ehr_ids \ {None} : LatestRows(stored, k) # {}}
    IN {f \in [keys -> Range(stored)] : \A k \in keys : f[k] \in LatestRows(stored, k)}

\* every mapping get_latest_changeable_for_ehrs(ehr_ids) can return
get_latest_changeable_for_ehrs(stored, ehr_ids) ==
    LET keys == {k \in ehr_ids : LatestRows(stored, k) # {}}
    IN {f \in [keys -> Range(stored)] : \A k \in keys : f[k] \in LatestRows(stored, k)}

\* update_migrated_batch without its WHERE clause
update_migrated_all(stored, uuids, m) ==
    [i \in DOMAIN stored |-> [stored[i] EXCEPT !.migrated = m]]

\* UPDATE tmp_user_properties SET migrated = m WHERE uuid = ANY(uuids)
update_migrated_batch(stored, uuids, m) ==
    [i \in DOMAIN stored |->
        IF stored[i].uuid \in Range(uuids)
        THEN [stored[i] EXCEPT !.migrated = m] ELSE stored[i]]

\* ------------------------------------------------------------------- flush
\* flush's permanent insert without its ON CONFLICT clause
flush_permanent_no_conflict(stored, existing, pending) ==
    LET to_insert == SelectSeq(pending, LAMBDA p : p.ehr_id \notin existing)
        ins == insert_batch("permanent_user_properties", stored, to_insert,
                            "", "", "ehr_id")
    IN IF pending # <<>> /\ to_insert # <<>>
       THEN [table |-> ins.table,
             existing_permanent |-> existing \cup Range(ins.ids),
             batches |-> ins.batches,
             to_insert |-> to_insert, inserted_ids |-> ins.ids, calls |-> 1]
       ELSE [table |-> stored, existing_permanent |-> existing, batches |-> 0,
             to_insert |-> <<>>, inserted_ids |-> <<>>, calls |-> 0]

\* flush's permanent insert as an upsert: no filter on the cache, and a
\* stored row with the same ehr_id is overwritten
flush_permanent_upsert(stored, existing, pending) ==
    LET Last(eid) == CHOOSE i \in DOMAIN pending :
                        /\ pending[i].ehr_id = eid
                        /\ \A j \in DOMAIN pending :
                               pending[j].ehr_id = eid => j <= i
        updated == [i \in DOMAIN stored |->
                      IF \E j \in DOMAIN pending : pending[j].ehr_id = stored[i].ehr_id
                      THEN pending[Last(stored[i].ehr_id)] ELSE stored[i]]
        fresh == SelectSeq(pending, LAMBDA p : p.ehr_id \notin existing)
        ins == insert_batch("permanent_user_properties", updated, fresh,
                            "DO NOTHING", "ehr_id", "ehr_id")
    IN [table |-> ins.table,
        existing_permanent |-> existing \cup Range(ins.ids),
        batches |-> ins.batches,
        to_insert |-> fresh, inserted_ids |-> ins.ids, calls |-> 1]

\* flush's permanent insert without the filter on existing_permanent: every
\* pending row is handed to the insert, the conflict clause sorting them out
flush_permanent_unfiltered(stored, existing, pending) ==
    LET ins == insert_batch("permanent_user_properties", stored, pending,
                            "DO NOTHING", "ehr_id", "ehr_id")
    IN IF pending # <<>>
       THEN [table |-> ins.table,
             existing_permanent |-> existing \cup Range(ins.ids),
             batches |-> ins.batches,
             to_insert |-> pending, inserted_ids |-> ins.ids, calls |-> 1]
       ELSE [table |-> stored, existing_permanent |-> existing, batches |-> 0,
             to_insert |-> <<>>, inserted_ids |-> <<>>, calls |-> 0]

\* the permanent insert of flush with no ON CONFLICT clause
permanent_on_conflict_none == ""

\* on_conflict of the permanent insert of flush, 120
permanent_on_conflict == "DO NOTHING"

flush_permanent(stored, existing, pending) ==
    LET to_insert == SelectSeq(pending, LAMBDA p : p.ehr_id \notin existing)
        ins == insert_batch("permanent_user_properties", stored, to_insert,
                            permanent_on_conflict, "ehr_id", "ehr_id")
    IN IF pending # <<>> /\ to_insert # <<>>
       THEN [table |-> ins.table,
             existing_permanent |-> existing \cup Range(ins.ids),
             batches |-> ins.batches,
             to_insert |-> to_insert, inserted_ids |-> ins.ids, calls |-> 1]
       ELSE [table |-> stored, existing_permanent |-> existing, batches |-> 0,
             to_insert |-> <<>>, inserted_ids |-> <<>>, calls |-> 0]

\* the loop of flush over pending_changeable with the cache left as it was
\* loaded: every candidate is compared with the row the loop started with
select_changed_stale(pending, lc) ==
    [to_insert |->
        SelectSeq(pending,
                  LAMBDA c : compare_changeable(IF c.ehr_id \in DOMAIN lc
                                                THEN <<lc[c.ehr_id]>> ELSE <<>>, c)),
     last_change |-> lc]

\* the loop of flush over pending_changeable: the rows to insert and the
\* cache after the loop
RECURSIVE select_changed(_, _)
select_changed(pending, lc) ==
    IF pending = <<>> THEN [to_insert |-> <<>>, last_change |-> lc]
    ELSE
      LET c == Head(pending)
          eid == c.ehr_id
          old == IF eid \in DOMAIN lc THEN <<lc[eid]>> ELSE <<>>
          changed == compare_changeable(old, c)
          lc1 == IF changed
                 THEN [k \in DOMAIN lc \cup {eid} |-> IF k = eid THEN c ELSE lc[k]]
                 ELSE lc
          rest == select_changed(Tail(pending), lc1)
      IN [to_insert |-> IF changed THEN <<c>> \o rest.to_insert ELSE rest.to_insert,
          last_change |-> rest.last_change]

flush_changeable(stored, lc, pending) ==
    LET sel == select_changed(pending, lc)
        ins == insert_batch("changeable_user_properties", stored, sel.to_insert,
                            "", "", "uuid")
    IN [table |-> ins.table, last_change |-> sel.last_change,
        batches |-> ins.batches]

\* ------------------------------------------------------------------- state
VARIABLES
    lines,                      \* the archive object, split into lines
    tmp_user_properties,        \* the staging table, ordered by event_time
    batch_size,                 \* settings.etl.batch_size
    permanent_user_properties,  \* warehouse table, in insertion order
    changeable_user_properties, \* warehouse table, in insertion order
    pc,                         \* "idle", "amplitude", "select" or "tmp_table"
    start,                      \* start_after_idx (archive) or start_date (staging)
    current_day,
    rows,                       \* rows_or_lines of the current process_day call
    pos,                        \* number of rows_or_lines already consumed
    existing_permanent,
    last_change,
    pending_permanent,
    pending_changeable,
    batch_uuids,
    processed_total,
    outcome,                    \* how the last process_source call ended
    http_response,              \* what the endpoint answered for it
    runs,                       \* number of process_source calls so far
    source_type,                \* "amplitude" or "tmp_table"
    prev,                       \* the call before the current one
    hist,                       \* bookkeeping of the current call
    submitted,                  \* uuid -> number of flushes it was part of
    repo,                       \* the repository operation under way
    borrowed,                   \* connections out of the pool
    transform_call,             \* the transformer called on its own: the raw
                                \* record, the source tag, and the hash seed
                                \* of the interpreter making the call
    transformed,                \* what the calls on it gave, oldest first
    workers,                    \* process_source calls running side by side:
                                \* the locals of each
    reader,                     \* an iter_lines generator of the archive
                                \* client and the provider it reads
    singleton,                  \* _repository_instance, the pools made and
                                \* the get_repository calls under way
    s3                          \* the class process_source imports as
                                \* S3Client and makes its client of

repository == <<settings_db, singleton, s3, repo, borrowed, transform_call, transformed, workers,
                reader>>

vars == <<repository, lines, tmp_user_properties, batch_size, permanent_user_properties,
          changeable_user_properties, pc, start, current_day, rows, pos,
          existing_permanent, last_change, pending_permanent,
          pending_changeable, batch_uuids, processed_total, outcome,
          http_response, runs, source_type, prev, hist, submitted>>

source == <<lines, tmp_user_properties, batch_size>>

\* ------------------------------------------------- outcomes and the endpoint
NoOutcome == [kind |-> "none", status_code |-> 0, status |-> "none",
              processed |-> 0, errors |-> 0, last_successful_line |-> <<>>,
              failed_line |-> <<>>, file_key |-> <<>>]

\* process_source returns a dict (status "absent": the dict has no status key)
Returned(status, processed, last_successful_line) ==
    [kind |-> "return", status_code |-> 0, status |-> status,
     processed |-> processed, errors |-> errors_total,
     last_successful_line |-> last_successful_line,
     failed_line |-> <<>>, file_key |-> <<>>]

\* the handler of ProcessingInterrupted in process_source, 318-338
Interrupted_no_file_key(st, processed, last_successful_line, failed_line, file_key) ==
    [kind |-> "HTTPException", status_code |-> 200, status |-> "interrupted",
     processed |-> processed, errors |-> errors_total + 1,
     last_successful_line |->
         IF st = "amplitude" THEN last_successful_line ELSE <<>>,
     failed_line |-> IF st = "amplitude" THEN failed_line ELSE <<>>,
     file_key |-> <<>>]

Interrupted(st, processed, last_successful_line, failed_line, file_key) ==
    [kind |-> "HTTPException", status_code |-> 200, status |-> "interrupted",
     processed |-> processed, errors |-> errors_total + 1,
     last_successful_line |->
         IF st = "amplitude" THEN last_successful_line ELSE <<>>,
     failed_line |-> IF st = "amplitude" THEN failed_line ELSE <<>>,
     file_key |-> IF st = "amplitude" THEN file_key ELSE <<>>]

\* the handler of every other exception in process_source, 340-342
Raised(processed) ==
    [kind |-> "HTTPException", status_code |-> 500, status |-> "error",
     processed |-> processed, errors |-> errors_total,
     last_successful_line |-> <<>>, failed_line |-> <<>>, file_key |-> <<>>]

\* the endpoint: a returned dict is answered with 200; any exception that is
\* not a ProcessingInterrupted, the HTTPException process_source raises
\* included, is caught by `except Exception` and answered with 500
run_user_properties_transform(out) ==
    IF out.kind = "return"
    THEN [status_code |-> 200,
          status |-> IF out.status = "absent" THEN "success" ELSE out.status,
          body |-> <<out>>]
    ELSE [status_code |-> 500, status |-> "error", body |-> <<>>]

NoResponse == [status_code |-> 0, status |-> "none", body |-> <<>>]

\* ------------------------------------------------------------ bookkeeping
Migrated(stored) == {i \in DOMAIN stored : stored[i].migrated}

NewHist == [failed |-> <<>>, perm0 |-> Len(permanent_user_properties),
            chg0 |-> Len(changeable_user_properties),
            migrated0 |-> Cardinality(Migrated(tmp_user_properties)),
            perm_inserts |-> 0, chg_inserts |-> 0, updates |-> 0,
            order |-> <<>>, failure |-> <<>>, read |-> "none", flushed |-> {},
            permanent_flush |-> <<>>, windows |-> <<>>, marks |-> <<>>,
            preloaded |-> <<>>, peak |-> 0]

\* the bookkeeping of a call that starts, with the cache its preload loaded
StartHist == [NewHist EXCEPT !.preloaded = last_change']

\* the record counted by `processed_total += 1`, after those counted before
\* it in this call: its place in the source (the index in the file of the
\* line, whose uuid is its position counted from 1, or the uuid of the
\* staging row), its time and the day whose query returned it
Processed(h, key, record) ==
    [h EXCEPT !.order = Append(@, [key |-> key, uuid |-> record.uuid,
                                   event_time |-> record.event_time,
                                   day |-> current_day])]

Submit(sub, pending) ==
    [u \in DOMAIN sub |->
        sub[u] + Cardinality({i \in DOMAIN pending : pending[i].uuid = u})]

\* flush() on the pending buffers pp and pch: the state it leaves
flush(pp, pch) ==
    LET p == flush_permanent(permanent_user_properties, existing_permanent, pp)
        c == flush_changeable(changeable_user_properties, last_change, pch)
    IN [permanent |-> p.table, changeable |-> c.table,
        existing_permanent |-> p.existing_permanent,
        last_change |-> c.last_change,
        perm_inserts |-> p.batches, chg_inserts |-> c.batches,
        submitted |-> Submit(submitted, pch),
        flushed |-> {pch[i].uuid : i \in DOMAIN pch},
        permanent_flush |->
            [pending |-> pp, before |-> existing_permanent,
             to_insert |-> p.to_insert, inserted_ids |-> p.inserted_ids,
             calls |-> p.calls, after |-> p.existing_permanent]]

ApplyFlush(f) ==
    /\ permanent_user_properties' = f.permanent
    /\ changeable_user_properties' = f.changeable
    /\ existing_permanent' = f.existing_permanent
    /\ last_change' = f.last_change
    /\ pending_permanent' = <<>>
    /\ pending_changeable' = <<>>
    /\ submitted' = f.submitted

NoFlush(pp, pch) ==
    /\ pending_permanent' = pp
    /\ pending_changeable' = pch
    /\ UNCHANGED <<permanent_user_properties, changeable_user_properties,
                   existing_permanent, last_change, submitted>>

\* a trigger that lets a buffer grow past batch_size before it flushes
size_trigger_above(pp, pch) == Len(pp) > batch_size \/ Len(pch) > batch_size

\* len(pending_permanent) >= batch_size or len(pending_changeable) >= batch_size
size_trigger(pp, pch) == Len(pp) >= batch_size \/ Len(pch) >= batch_size

\* the longest the buffers were in the call, pp and pch being what they hold
\* after the appends of a record
Peak(h, pp, pch) ==
    [h EXCEPT !.peak = IF Len(pp) >= @ /\ Len(pp) >= Len(pch) THEN Len(pp)
                       ELSE IF Len(pch) >= @ THEN Len(pch) ELSE @]

\* the update_migrated_batch call made on uuids right after the flush f
Marked(h, f, uuids) ==
    IF uuids = <<>> THEN h
    ELSE [h EXCEPT !.marks = Append(@, [uuids |-> uuids, flush |-> f.flushed,
                                        day |-> current_day])]

Counted(f, updates) ==
    [hist EXCEPT !.perm_inserts = @ + f.perm_inserts,
                 !.chg_inserts = @ + f.chg_inserts,
                 !.updates = @ + updates,
                 !.flushed = @ \cup f.flushed,
                 !.permanent_flush = <<f.permanent_flush>>]

EndRun(out) ==
    /\ pc' = "idle"
    /\ outcome' = out
    /\ http_response' = run_user_properties_transform(out)

Running(next_pc) ==
    /\ pc' = next_pc
    /\ UNCHANGED <<outcome, http_response>>

\* process_source up to the source-specific branch: the cache preload, 74-91
Preload(st) ==
    /\ pc = "idle"
    /\ runs < MaxRuns
    /\ runs' = runs + 1
    /\ source_type' = st
    /\ prev' = [source_type |-> source_type, start |-> start,
                status |-> outcome.status, failed |-> hist.failed,
                processed |-> processed_total]
    /\ existing_permanent' = get_all_permanent_ehr_ids(permanent_user_properties)
    /\ \E lc \in get_latest_changeable_for_ehrs(
                    changeable_user_properties,
                    get_all_permanent_ehr_ids(permanent_user_properties)
                        \cup {None}) :
          last_change' = lc
    /\ processed_total' = 0
    /\ pending_permanent' = <<>>
    /\ pending_changeable' = <<>>
    /\ batch_uuids' = <<>>
    /\ pos' = 0
    /\ UNCHANGED <<source, permanent_user_properties,
                   changeable_user_properties, submitted, repository>>

\* what flush() finds in a pending buffer when a record fails: the record's
\* own projection was never appended, 174-176 and 210-212
buffered_with_failing(pending, projection) == pending \o projection

\* the buffers thrown away when a record fails, with no flush of them
buffered_dropped(pending, projection) == <<>>

buffered_on_error(pending, projection) == pending

\* ----------------------------------------------------------- archive mode
FileKey == "prefix"

\* the slice taken from the first line whatever start_after is
archive_slice_whole(content, start_after_idx) == content

\* lines[start_after_idx:]
archive_slice(content, start_after_idx) ==
    SubSeq(content, start_after_idx + 1, Len(content))

\* S3Client.get_object(self, key) takes the key alone and reads it from the
\* bucket the client was configured with
S3Client == [get_object |-> <<"key">>]

\* a class standing in for it whose get_object(self, bucket, key) takes the
\* bucket too, as the call of process_source supposes
S3ClientOfBucket == [get_object |-> <<"bucket", "key">>]

S3Clients == {S3Client, S3ClientOfBucket}

get_object_parameters == s3.get_object

\* the call s3.get_object(bucket, prefix) of process_source
get_object_arguments == <<"bucket", "prefix">>

\* Python raises TypeError when the positional arguments of a call do not
\* fit the parameters of the method
get_object_raises == Len(get_object_arguments) # Len(get_object_parameters)


\* the request carries no start_after: model_dump() gives the key with the
\* value None, params.get("start_after", 0) is None and int(None) raises
\* TypeError before the object is asked for, 251 and 340-342
ArchiveStartAfterMissing ==
    /\ Preload("amplitude")
    /\ start' = 0
    /\ rows' = <<>>
    /\ hist' = StartHist
    /\ EndRun(Raised(0))
    /\ UNCHANGED <<current_day>>

\* s3.get_object(bucket, prefix) raises: with S3Client whatever the store
\* holds, since the call does not fit the method, and with any client when
\* the store refuses the read (client_v4.get_object, client.py 110):
\* ProcessingInterrupted with the file key only, 253-260
ArchiveUnreadable(s) ==
    /\ Preload("amplitude")
    /\ start' = s
    /\ rows' = <<>>
    /\ hist' = [StartHist EXCEPT !.read = "raised"]
    /\ EndRun(Interrupted("amplitude", processed_total', <<>>, <<>>, <<FileKey>>))
    /\ UNCHANGED <<current_day>>

\* the path of 255-275, taken when get_object hands back the content of the
\* object (a client whose get_object takes the bucket and the key): the
\* object is split and lines[start_after_idx:] goes to process_day
ArchiveStart(s) ==
    /\ ~get_object_raises
    /\ Preload("amplitude")
    /\ start' = s
    /\ hist' = [StartHist EXCEPT !.read = "returned"]
    /\ UNCHANGED <<current_day>>
    /\ IF s >= Len(lines)
       THEN /\ rows' = <<>>
            /\ EndRun(Returned("absent", 0, <<Len(lines) - 1>>))
       ELSE /\ rows' = archive_slice(lines, s)
            /\ Running("amplitude")

\* one iteration of the loop over enumerate(rows_or_lines), 158-196
ArchiveLine ==
    /\ pc = "amplitude"
    /\ pos < Len(rows)
    /\ LET line_idx == pos
           line == rows[pos + 1]
           t == transform_single_record(line)
       IN IF line.json /\ ~line.object
          THEN \* raw_record.get of transformer.py 33 on a value that is no
               \* dict: AttributeError, outside every handler of process_day
               \* but the re-raising one (239-242), so no flush and 340-342
               /\ hist' = [hist EXCEPT !.failed = <<start + pos>>]
               /\ EndRun(Raised(processed_total))
               /\ NoFlush(pending_permanent, pending_changeable)
               /\ UNCHANGED <<pos, processed_total>>
          ELSE IF ~line.json \/ t.errors # <<>>
          THEN LET f == flush(
                            buffered_on_error(pending_permanent, t.permanent),
                            buffered_on_error(pending_changeable, t.changeable))
               IN /\ ApplyFlush(f)
                  /\ hist' = [Counted(f, 0) EXCEPT !.failed = <<start + pos>>]
                  /\ EndRun(Interrupted("amplitude", processed_total,
                                        <<line_idx - 1>>, <<line_idx>>,
                                        <<FileKey>>))
                  /\ UNCHANGED <<pos, processed_total>>
          ELSE LET pp == pending_permanent \o t.permanent
                   pch == pending_changeable \o t.changeable
               IN /\ processed_total' = processed_total + 1
                  /\ pos' = pos + 1
                  /\ Running("amplitude")
                  /\ IF size_trigger(pp, pch)
                     THEN LET f == flush(pp, pch)
                          IN /\ ApplyFlush(f)
                             /\ hist' = Peak(Processed(Counted(f, 0),
                                                       line.uuid - 1, line),
                                             pp, pch)
                     ELSE /\ NoFlush(pp, pch)
                          /\ hist' = Peak(Processed(hist, line.uuid - 1, line),
                                          pp, pch)
    /\ UNCHANGED <<source, start, current_day, rows, batch_uuids, runs, prev,
                   source_type, repository>>

\* the flush after the loop and the return of process_source, 198-199, 311-316
ArchiveEnd ==
    /\ pc = "amplitude"
    /\ pos = Len(rows)
    /\ LET f == flush(pending_permanent, pending_changeable)
       IN ApplyFlush(f) /\ hist' = Counted(f, 0)
    /\ EndRun(Returned("completed", processed_total, <<>>))
    /\ UNCHANGED <<source, start, current_day, rows, pos, batch_uuids,
                   processed_total, runs, prev, source_type, repository>>

\* ------------------------------------------------------------ the sources
\* What one line or staging row holds, before its position gives it a uuid,
\* a session and a time: a record that transforms cleanly, a record with an
\* unknown nested key, a record whose Age or EHR_ID is no integer, or (archive only,
\* json = FALSE) a line that is not JSON.  dt is the time elapsed since the
\* record before it.
CleanShapes(steps) ==
    [json : {TRUE}, object : {TRUE}, EHR_ID : EhrValues, Age : AgeValues,
     unknown_key : {FALSE}, dt : steps]

FailingShapes ==
    [json : {TRUE}, object : {TRUE}, EHR_ID : {None}, Age : {None},
     unknown_key : {TRUE}, dt : {1}]
    \cup [json : {TRUE}, object : {TRUE}, EHR_ID : EhrValues, Age : {BadInt},
          unknown_key : {FALSE}, dt : {1}]
    \cup [json : {TRUE}, object : {TRUE}, EHR_ID : {BadInt}, Age : {None},
          unknown_key : {FALSE}, dt : {1}]

NotJson == [json |-> FALSE, object |-> FALSE, EHR_ID |-> None, Age |-> None,
            unknown_key |-> FALSE, dt |-> 0]

\* a line json.loads accepts and that is no object: an array, a number, a
\* string, true, false or null
NotObject == [json |-> TRUE, object |-> FALSE, EHR_ID |-> None, Age |-> None,
              unknown_key |-> FALSE, dt |-> 0]

RECURSIVE TimeAt(_, _)
TimeAt(f, i) == IF i = 0 THEN 0 ELSE TimeAt(f, i - 1) + f[i].dt

Record(f, i) ==
    [json |-> f[i].json, object |-> f[i].object,
     uuid |-> IF f[i].object THEN i ELSE None,
     event_time |-> IF f[i].object THEN TimeAt(f, i) ELSE None,
     session_id |-> IF f[i].object THEN i ELSE None,
     EHR_ID |-> f[i].EHR_ID, Age |-> f[i].Age, unknown_key |-> f[i].unknown_key]

Failing(shape) ==
    \/ ~shape.json
    \/ ~shape.object
    \/ shape.unknown_key
    \/ shape.Age = BadInt
    \/ shape.EHR_ID = BadInt

Sources(n, steps, failing) ==
    {f \in [1..n -> CleanShapes(steps) \cup failing] :
        /\ f[1].dt = 1
        /\ Cardinality({i \in 1..n : Failing(f[i])}) <= 1}

\* settings.db as repository.py reads it (63-67): max_params_per_query,
\* safety_factor in tenths and max_rows_per_insert, present or not. The
\* Settings class of settings.py has no field db; the fields are those of
\* the configuration table of the specification, here with the values the
\* runs of the orchestrator are checked under
settings ==
    [max_params_per_query |-> MaxParamsPerQuery, safety_num |-> SafetyNum,
     max_rows_per_insert |-> <<MaxRowsPerInsert>>]

\* no repository operation under way, every connection in the pool
NoCall == [op |-> "none", status |-> "idle", table |-> "none", rows |-> <<>>,
           columns |-> 0, conflicts |-> {}, steps |-> <<>>, i |-> 0, conn |-> 0,
           statements |-> <<>>, ids |-> <<>>, batches |-> 0, error |-> "none"]

\* values of a raw record: a missing key or null, a string, a number, a
\* list, a native UUID or datetime
Absent == [type |-> "absent", text |-> ""]

Str(s) == [type |-> "str", text |-> s]

Number(s) == [type |-> "int", text |-> s]

List == [type |-> "list", text |-> "[]"]

NoTransform == [raw_record |-> Absent, source_type |-> "none", hash_seed |-> 0,
                slots |-> <<>>]

\* the results of the calls made so far on transform_call, oldest first
NotTransformed == <<>>

\* no process_source call running beside the one of pc
NoWorkers == <<>>

\* no iter_lines generator
NoReader == [phase |-> "none"]

\* the module as imported: _repository_instance = None, repository.py 391
NoSingleton ==
    [instance |-> None, pools |-> 0, closed |-> {},
     callers |-> [t \in {} |-> None]]

InitRepositoryWith(db, clients) ==
    /\ settings_db = db
    /\ singleton = NoSingleton
    /\ s3 \in clients
    /\ repo = NoCall
    /\ borrowed = 0
    /\ transform_call = NoTransform
    /\ transformed = NotTransformed
    /\ workers = NoWorkers
    /\ reader = NoReader

\* the repository as it stands: the client is S3Client
InitRepository(db) == InitRepositoryWith(db, {S3Client})

InitRun ==
    /\ permanent_user_properties = <<>>
    /\ changeable_user_properties = <<>>
    /\ pc = "idle"
    /\ start = 0
    /\ current_day = 0
    /\ rows = <<>>
    /\ pos = 0
    /\ existing_permanent = {}
    /\ last_change = <<>>
    /\ pending_permanent = <<>>
    /\ pending_changeable = <<>>
    /\ batch_uuids = <<>>
    /\ processed_total = 0
    /\ outcome = NoOutcome
    /\ http_response = NoResponse
    /\ runs = 0
    /\ source_type = "none"
    /\ prev = [source_type |-> "none", start |-> 0, status |-> "none",
               failed |-> <<>>, processed |-> 0]
    /\ hist = [failed |-> <<>>, perm0 |-> 0, chg0 |-> 0, migrated0 |-> 0,
               perm_inserts |-> 0,
               chg_inserts |-> 0, updates |-> 0, order |-> <<>>,
               failure |-> <<>>, read |-> "none", flushed |-> {},
               permanent_flush |-> <<>>, windows |-> <<>>, marks |-> <<>>,
               preloaded |-> <<>>, peak |-> 0]

InitArchive ==
    /\ \E n \in 1..MaxLines :
          \E f \in Sources(n, {1}, FailingShapes \cup {NotJson}) :
             /\ lines = [i \in 1..n |-> Record(f, i)]
             /\ submitted = [u \in 1..n |-> 0]
    /\ tmp_user_properties = <<>>
    /\ batch_size \in 1..MaxBatch
    /\ InitRepositoryWith(settings, S3Clients)
    /\ InitRun

NextArchive ==
    \/ \E s \in 0..Len(lines) : ArchiveStart(s)
    \/ \E s \in 0..Len(lines) : ArchiveUnreadable(s)
    \/ ArchiveStartAfterMissing
    \/ ArchiveLine
    \/ ArchiveEnd

SpecArchive == InitArchive /\ [][NextArchive]_vars

\* Archive files in which a line may be JSON that is no object
InitScalarLine ==
    /\ \E n \in 1..MaxLines :
          \E f \in Sources(n, {1}, {NotObject, NotJson}) :
             /\ lines = [i \in 1..n |-> Record(f, i)]
             /\ submitted = [u \in 1..n |-> 0]
    /\ tmp_user_properties = <<>>
    /\ batch_size \in 1..MaxBatch
    /\ InitRepositoryWith(settings, S3Clients)
    /\ InitRun

SpecScalarLine == InitScalarLine /\ [][NextArchive]_vars

\* Archive files whose times may tie (dt = 0) and whose last line, and no
\* other, is not JSON: every run from inside the file is interrupted there.
InitResume ==
    /\ \E n \in 1..MaxResumeLines :
          \E f \in Sources(n, {0, 1}, {NotJson}) :
             /\ ~f[n].json
             /\ lines = [i \in 1..n |-> Record(f, i)]
             /\ submitted = [u \in 1..n |-> 0]
    /\ tmp_user_properties = <<>>
    /\ batch_size \in 1..MaxBatch
    /\ InitRepositoryWith(settings, S3Clients)
    /\ InitRun

\* (the loop over such a file never reaches its end)
NextResume ==
    \/ \E s \in 0..Len(lines) : ArchiveStart(s)
    \/ \E s \in 0..Len(lines) : ArchiveUnreadable(s)
    \/ ArchiveLine

SpecResume == InitResume /\ [][NextResume]_vars

\* ----------------------------------------------------------- staging mode
DayOf(event_time) == event_time \div TicksPerDay

\* ORDER BY event_time: the rows by ascending event_time. The tables of the
\* model hold no two rows with the same event_time, so the order is the
\* only one the database can return.
RECURSIVE order_by_event_time(_)
order_by_event_time(selected) ==
    IF selected = <<>> THEN <<>>
    ELSE LET first == CHOOSE i \in DOMAIN selected :
                          \A j \in DOMAIN selected :
                              selected[i].event_time <= selected[j].event_time
             others == [k \in 1..(Len(selected) - 1) |->
                           IF k < first THEN selected[k] ELSE selected[k + 1]]
         IN <<selected[first]>> \o order_by_event_time(others)

\* the day's query without its migrated = false condition
select_day_all(stored, day) ==
    order_by_event_time(SelectSeq(stored, LAMBDA r : DayOf(r.event_time) = day))

\* the day's query without its ORDER BY clause: the rows as they are stored
select_day_unordered(stored, day) ==
    SelectSeq(stored, LAMBDA r : ~r.migrated /\ DayOf(r.event_time) = day)

\* SELECT * FROM tmp_user_properties WHERE migrated = false
\*   AND event_time >= day AND event_time < day + 1 ORDER BY event_time
select_day(stored, day) ==
    order_by_event_time(
        SelectSeq(stored, LAMBDA r : ~r.migrated /\ DayOf(r.event_time) = day))

StagingStart(d) ==
    /\ Preload("tmp_table")
    /\ start' = d
    /\ current_day' = d
    /\ rows' = <<>>
    /\ hist' = StartHist
    /\ Running("select")

\* the last day a datetime holds (datetime.max): adding a day to it raises
\* OverflowError. It lies past every day a run that starts within MaxDay
\* can reach.
datetime_max == 2 * MaxRows + MaxDay + 2

\* current_day + timedelta(days=1) with a day left out
next_day_skipping(day) == day + 2

\* next_day = current_day + timedelta(days=1)
next_day(day) == day + 1

\* `if not rows` answering no for an empty day as well
not_rows_never(sel) == FALSE

\* `if not rows`
not_rows(sel) == sel = <<>>

\* the head of the while loop: next_day, which overflows on the last day a
\* datetime holds, then the day's query, 283-299
StagingSelect ==
    /\ pc = "select"
    /\ IF current_day >= datetime_max
       THEN /\ EndRun(Raised(processed_total))
            /\ UNCHANGED <<rows, pos, batch_uuids, hist>>
       ELSE LET sel == select_day(tmp_user_properties, current_day)
            IN /\ rows' = sel
               /\ pos' = 0
               /\ batch_uuids' = <<>>
               /\ hist' = [hist EXCEPT !.windows = Append(@, current_day)]
               /\ IF not_rows(sel)
                  THEN EndRun(Returned("completed", processed_total, <<>>))
                  ELSE Running("tmp_table")
    /\ UNCHANGED <<source, permanent_user_properties, changeable_user_properties,
                   start, current_day, existing_permanent, last_change,
                   pending_permanent, pending_changeable, processed_total, runs,
                   source_type, prev, submitted, repository>>

\* batch_uuids left as it is after the marking
clear_skipped(uuids) == uuids

\* batch_uuids.clear()
clear(uuids) == <<>>

\* a marking that sets the flag of every row: true for the uuids, false for
\* the others
mark_migrated_reset(stored, uuids) ==
    [i \in DOMAIN stored |->
        [stored[i] EXCEPT !.migrated = stored[i].uuid \in Range(uuids)]]

\* the rows of tmp_user_properties after the marking that follows a flush
mark_migrated(stored, uuids) ==
    IF uuids # <<>> THEN update_migrated_batch(stored, uuids, TRUE) ELSE stored

\* what the handler of a transformation error does to the staging table
\* before it raises, 210-216
mark_on_error(stored, uuids) == stored

\* one iteration of the loop over the day's rows, 203-233
StagingRow ==
    /\ pc = "tmp_table"
    /\ pos < Len(rows)
    /\ LET raw_record == rows[pos + 1]
           t == transform_single_record(raw_record)
       IN IF t.errors # <<>>
          THEN LET f == flush(
                            buffered_on_error(pending_permanent, t.permanent),
                            buffered_on_error(pending_changeable, t.changeable))
               IN /\ ApplyFlush(f)
                  /\ hist' = [Counted(f, 0) EXCEPT !.failed = <<raw_record.uuid>>]
                  /\ tmp_user_properties' =
                         mark_on_error(tmp_user_properties, batch_uuids)
                  /\ EndRun(Interrupted("tmp_table", processed_total, <<>>, <<>>,
                                        <<>>))
                  /\ UNCHANGED <<pos, processed_total, batch_uuids>>
          ELSE LET pp == pending_permanent \o t.permanent
                   pch == pending_changeable \o t.changeable
                   uuids == Append(batch_uuids, raw_record.uuid)
               IN /\ processed_total' = processed_total + 1
                  /\ pos' = pos + 1
                  /\ Running("tmp_table")
                  /\ IF size_trigger(pp, pch)
                     THEN LET f == flush(pp, pch)
                          IN /\ ApplyFlush(f)
                             /\ hist' = Marked(Peak(Processed(Counted(f, 1),
                                                              raw_record.uuid,
                                                              raw_record),
                                                    pp, pch),
                                               f, uuids)
                             /\ tmp_user_properties' =
                                    mark_migrated(tmp_user_properties, uuids)
                             /\ batch_uuids' = clear(uuids)
                     ELSE /\ NoFlush(pp, pch)
                          /\ batch_uuids' = uuids
                          /\ hist' = Peak(Processed(hist, raw_record.uuid,
                                                    raw_record),
                                          pp, pch)
                          /\ UNCHANGED tmp_user_properties
    /\ UNCHANGED <<lines, batch_size, start, current_day, rows, runs, prev,
                   source_type, repository>>

\* the flush and the marking after the loop, then the next day, 235-237, 305
StagingDayEnd ==
    /\ pc = "tmp_table"
    /\ pos = Len(rows)
    /\ LET f == flush(pending_permanent, pending_changeable)
       IN /\ ApplyFlush(f)
          /\ hist' = Marked(Counted(f, IF batch_uuids # <<>> THEN 1 ELSE 0),
                            f, batch_uuids)
    /\ tmp_user_properties' = mark_migrated(tmp_user_properties, batch_uuids)
    /\ current_day' = next_day(current_day)
    /\ Running("select")
    /\ UNCHANGED <<lines, batch_size, start, rows, pos, batch_uuids,
                   processed_total, runs, prev, source_type, repository>>

InitStaging ==
    /\ \E n \in 1..MaxRows :
          \E f \in Sources(n, {1, 2}, FailingShapes) :
             /\ tmp_user_properties =
                    [i \in 1..n |->
                        [uuid |-> i, event_time |-> TimeAt(f, i),
                         session_id |-> i, EHR_ID |-> f[i].EHR_ID,
                         Age |-> f[i].Age, unknown_key |-> f[i].unknown_key,
                         migrated |-> FALSE]]
             /\ submitted = [u \in 1..n |-> 0]
    /\ lines = <<>>
    /\ batch_size \in 1..MaxBatch
    /\ InitRepository(settings)
    /\ InitRun

NextStaging ==
    \/ \E d \in 0..MaxDay : StagingStart(d)
    \/ StagingSelect
    \/ StagingRow
    \/ StagingDayEnd

SpecStaging == InitStaging /\ [][NextStaging]_vars

\* ------------------------------------------- a statement of a flush fails
\* The statements of an insert_batch call that stored their rows when its
\* k-th raises: each statement commits on its own (autocommit), the raising
\* one stores nothing and the loop of insert_batch ends with it.
completed_through(k) == k

completed_before(k) == k - 1

\* the table after the first n statements of insert_batch
insert_batch_upto(table, stored, to_store, on_conflict, conflict_target, returning_column, n) ==
    insert_chunks(stored,
                  SubSeq(to_store, 1,
                         Min(Len(to_store), n * max_rows_for_table(table))),
                  max_rows_for_table(table), on_conflict, conflict_target,
                  returning_column).table

\* flush() on the buffers pp and pch when the k-th statement it issues
\* raises: the permanent statements come first, the changeable ones are
\* reached only when every permanent one returned. When a permanent
\* statement raises, the caches and the buffers are as they were (the ids
\* are added and the buffer cleared after insert_batch, 126-129); when a
\* changeable one raises, the permanent half is done and last_change
\* already holds the candidates of to_insert (143), pending_changeable is
\* not cleared (153).
flush_failing(pp, pch, k) ==
    LET to_insert == SelectSeq(pp, LAMBDA p : p.ehr_id \notin existing_permanent)
        p == flush_permanent(permanent_user_properties, existing_permanent, pp)
        sel == select_changed(pch, last_change)
        c == flush_changeable(changeable_user_properties, last_change, pch)
        done == completed_before(k)
    IN [statements |-> p.batches + c.batches,
        existing_permanent |->
            IF k > p.batches THEN p.existing_permanent ELSE existing_permanent,
        last_change |-> IF k > p.batches THEN sel.last_change ELSE last_change,
        pending_permanent |-> IF k > p.batches THEN <<>> ELSE pp,
        permanent |->
            IF done >= p.batches THEN p.table
            ELSE insert_batch_upto("permanent_user_properties",
                                   permanent_user_properties, to_insert,
                                   "DO NOTHING", "ehr_id", "ehr_id", done),
        changeable |->
            IF done <= p.batches THEN changeable_user_properties
            ELSE insert_batch_upto("changeable_user_properties",
                                   changeable_user_properties, sel.to_insert,
                                   "", "", "uuid", done - p.batches)]

\* the flush the staging loop is about to make: the one of the error
\* handler, of the size trigger, or of the end of the day
FlushDue ==
    IF pos = Len(rows)
    THEN <<[pp |-> pending_permanent, pch |-> pending_changeable, counted |-> 0,
            uuids |-> batch_uuids]>>
    ELSE LET raw_record == rows[pos + 1]
             t == transform_single_record(raw_record)
             pp == pending_permanent \o t.permanent
             pch == pending_changeable \o t.changeable
         IN IF t.errors # <<>>
            THEN <<[pp |-> buffered_on_error(pending_permanent, t.permanent),
                    pch |-> buffered_on_error(pending_changeable, t.changeable),
                    counted |-> 0, uuids |-> batch_uuids]>>
            ELSE IF size_trigger(pp, pch)
            THEN <<[pp |-> pp, pch |-> pch, counted |-> 1,
                    uuids |-> Append(batch_uuids, raw_record.uuid)]>>
            ELSE <<>>

\* a statement of that flush raises: the exception leaves flush, process_day
\* logs and re-raises it (239-242) and process_source turns it into
\* HTTPException(500) (340-342); update_migrated_batch is not reached. The
\* row whose append set the size trigger off was appended and counted
\* before flush was called (218-224)
StagingFlushFails ==
    /\ pc = "tmp_table"
    /\ FlushDue # <<>>
    /\ LET due == FlushDue[1]
       IN \E k \in 1..flush_failing(due.pp, due.pch, 1).statements :
             LET f == flush_failing(due.pp, due.pch, k)
             IN /\ permanent_user_properties' = f.permanent
                /\ changeable_user_properties' = f.changeable
                /\ existing_permanent' = f.existing_permanent
                /\ last_change' = f.last_change
                /\ pending_permanent' = f.pending_permanent
                /\ pending_changeable' = due.pch
                /\ batch_uuids' = due.uuids
                /\ processed_total' = processed_total + due.counted
                /\ hist' = [(IF due.counted = 1
                              THEN Peak(Processed(hist, rows[pos + 1].uuid,
                                                  rows[pos + 1]),
                                        due.pp, due.pch)
                              ELSE hist)
                             EXCEPT !.failure =
                                <<[statement |-> k, statements |-> f.statements,
                                   pp |-> due.pp, pch |-> due.pch]>>]
                /\ EndRun(Raised(processed_total + due.counted))
    /\ UNCHANGED <<source, start, current_day, rows, pos, submitted, runs, prev,
                   source_type, repository>>

NextWarehouseError == NextStaging \/ StagingFlushFails

SpecWarehouseError == InitStaging /\ [][NextWarehouseError]_vars

\* the flush of the size trigger or of the end of the day returned and the
\* update_migrated_batch after it raises (230-231, 236-237): the single
\* UPDATE changes no row, batch_uuids is not cleared, and the exception
\* leaves process_day and process_source like the one of a failing flush
StagingMarkFails ==
    /\ pc = "tmp_table"
    /\ FlushDue # <<>>
    /\ LET due == FlushDue[1]
           f == flush(due.pp, due.pch)
       IN /\ pos = Len(rows) \/ due.counted = 1
          /\ due.uuids # <<>>
          /\ ApplyFlush(f)
          /\ batch_uuids' = due.uuids
          /\ processed_total' = processed_total + due.counted
          /\ hist' = IF due.counted = 1
                     THEN Peak(Processed(Counted(f, 0), rows[pos + 1].uuid,
                                         rows[pos + 1]),
                               due.pp, due.pch)
                     ELSE Counted(f, 0)
          /\ EndRun(Raised(processed_total + due.counted))
    /\ UNCHANGED <<lines, tmp_user_properties, batch_size, start, current_day,
                   rows, pos, runs, prev, source_type, repository>>

NextStagingErrors == NextWarehouseError \/ StagingMarkFails

SpecStagingErrors == InitStaging /\ [][NextStagingErrors]_vars

\* The staging tables of InitStaging with their rows stored in any order:
\* the table is a heap, only the day's query orders its rows.
StoredOrders(n) == {o \in [1..n -> 1..n] : Range(o) = 1..n}

InitStoredAnyOrder ==
    /\ \E n \in 1..MaxRows :
          \E f \in Sources(n, {1, 2}, FailingShapes) :
             \E o \in StoredOrders(n) :
                /\ tmp_user_properties =
                       [i \in 1..n |->
                           [uuid |-> o[i], event_time |-> TimeAt(f, o[i]),
                            session_id |-> o[i], EHR_ID |-> f[o[i]].EHR_ID,
                            Age |-> f[o[i]].Age,
                            unknown_key |-> f[o[i]].unknown_key,
                            migrated |-> FALSE]]
                /\ submitted = [u \in 1..n |-> 0]
    /\ lines = <<>>
    /\ batch_size \in 1..MaxBatch
    /\ InitRepository(settings)
    /\ InitRun

\* both sources: every archive file of InitArchive, every staging table of
\* InitStaging
Init == InitArchive \/ InitStaging

Next == NextArchive \/ NextStaging

Spec == Init /\ [][Next]_vars

\* both sources, the staging rows stored in any order
SpecOrdering == (InitArchive \/ InitStoredAnyOrder) /\ [][Next]_vars

\* ------------------------------------------- the repository, by statement
\* One repository operation at a time, one step per connection borrowed:
\* _get_conn, then the statement (or the as_string call) returns or raises
\* and the finally clause puts the connection back.
orchestrator == <<workers, reader, lines, tmp_user_properties, batch_size,
                  permanent_user_properties, changeable_user_properties, pc,
                  start, current_day, rows, pos, existing_permanent,
                  last_change, pending_permanent, pending_changeable,
                  batch_uuids, processed_total, outcome, http_response, runs,
                  source_type, prev, hist, submitted>>

\* pool.putconn(conn)
put_conn(n) == n - 1

\* a statement that raises leaves without putting its connection back
put_conn_skipped(n) == n

\* the finally clause of execute, _to_sql_string and _insert_batch_query
\* when the statement raised
put_conn_finally(n) == put_conn(n)

\* the connections the operations borrow, in order: insert_one and select
\* format the query with _to_sql_string and then execute it;
\* update_migrated_batch returns at once on an empty list
StepsOf(op) ==
    CASE op = "execute" -> <<"statement">>
      [] op = "_to_sql_string" -> <<"as_string">>
      [] op = "insert_one" -> <<"as_string", "statement">>
      [] op = "select" -> <<"as_string", "statement">>
      [] op = "update_migrated_batch" -> <<"statement">>
      [] op = "update_migrated_batch of no uuid" -> <<>>

Operations == {"execute", "_to_sql_string", "insert_one", "select",
               "update_migrated_batch", "update_migrated_batch of no uuid"}

RepositoryCall(op) ==
    /\ repo.status # "running"
    /\ repo' = [NoCall EXCEPT !.op = op, !.steps = StepsOf(op),
                              !.status = IF StepsOf(op) = <<>> THEN "returned"
                                         ELSE "running"]
    /\ UNCHANGED <<settings_db, singleton, s3, borrowed, orchestrator, transform_call,
                   transformed>>

\* insert_batch(table, rows, returning_column = ...) up to its loop: `n` rows
\* of `columns` keys each, of which the rows of `conflicts` return nothing;
\* range(0, len(rows), 0) raises ValueError, a negative step gives no chunk
InsertBatchCall(table, n, columns, conflicts) ==
    /\ repo.status # "running"
    /\ LET max_rows_per_batch == max_rows_for_table(table)
       IN repo' = [NoCall EXCEPT
                     !.op = "insert_batch", !.table = table,
                     !.rows = [k \in 1..n |-> k], !.columns = columns,
                     !.conflicts = conflicts,
                     !.status = IF n = 0 THEN "returned"
                                ELSE IF max_rows_per_batch = 0 THEN "raised"
                                ELSE IF max_rows_per_batch < 0 THEN "returned"
                                ELSE "running",
                     !.error = IF n > 0 /\ max_rows_per_batch = 0
                               THEN "ValueError" ELSE "none"]
    /\ UNCHANGED <<settings_db, singleton, s3, borrowed, orchestrator, transform_call,
                   transformed>>

\* _get_conn: pool.getconn() hands out a connection
GetConn ==
    /\ repo.status = "running"
    /\ repo.conn = 0
    /\ repo' = [repo EXCEPT !.conn = 1]
    /\ borrowed' = borrowed + 1
    /\ UNCHANGED <<settings_db, singleton, s3, orchestrator, transform_call, transformed>>

\* _get_conn: pool.getconn() raises, nothing was borrowed
GetConnRaises ==
    /\ repo.status = "running"
    /\ repo.conn = 0
    /\ repo' = [repo EXCEPT !.status = "raised", !.error = "PoolError"]
    /\ UNCHANGED <<settings_db, singleton, s3, borrowed, orchestrator, transform_call,
                   transformed>>

\* the chunk the loop of insert_batch is at
CurrentChunk == chunk(repo.rows, repo.i, max_rows_for_table(repo.table))

\* what RETURNING hands back for a chunk: the rows that were inserted
Returning(rows_of_chunk) ==
    SelectSeq(rows_of_chunk, LAMBDA r : r \notin repo.conflicts)

\* the statement (or as_string) returns; finally puts the connection back
StatementReturns ==
    /\ repo.status = "running"
    /\ repo.conn = 1
    /\ borrowed' = put_conn(borrowed)
    /\ IF repo.op = "insert_batch"
       THEN LET next_i == repo.i + max_rows_for_table(repo.table)
            IN repo' = [repo EXCEPT
                          !.conn = 0, !.i = next_i,
                          !.statements = Append(@, CurrentChunk),
                          !.ids = @ \o Returning(CurrentChunk),
                          !.batches = @ + 1,
                          !.status = IF next_i >= Len(repo.rows)
                                     THEN "returned" ELSE "running"]
       ELSE repo' = [repo EXCEPT
                       !.conn = 0, !.steps = Tail(@),
                       !.status = IF Tail(repo.steps) = <<>>
                                  THEN "returned" ELSE "running"]
    /\ UNCHANGED <<settings_db, singleton, s3, orchestrator, transform_call, transformed>>

\* the statement (or as_string) raises; finally puts the connection back and
\* the exception leaves the operation
StatementRaises ==
    /\ repo.status = "running"
    /\ repo.conn = 1
    /\ borrowed' = put_conn_finally(borrowed)
    /\ repo' = [repo EXCEPT
                  !.conn = 0, !.status = "raised", !.error = "statement",
                  !.statements = IF repo.op = "insert_batch"
                                 THEN Append(@, CurrentChunk) ELSE @]
    /\ UNCHANGED <<settings_db, singleton, s3, orchestrator, transform_call, transformed>>

\* the tables insert_batch is called for and the keys their rows may carry:
\* a table of TABLE_MODEL_MAP gets the dump of its model, any other table
\* rows of any width
Tables == {"events_part", "mobile_devices", "permanent_user_properties",
           "technical_data", "tmp_event_properties", "tmp_user_properties",
           "user_locations", "changeable_user_properties", "unknown_table"}

RowWidths(table) ==
    IF table = "unknown_table"
    THEN {ColumnCount(table), ColumnCount(table) + 1}
    ELSE {ColumnCount(table)}

InsertSizes(table) ==
    IF table = "events_part" THEN 0..MaxInsertRows \cup {40}
    ELSE 0..MaxInsertRows

\* the configuration of the runs above; max_params_per_query = 100 with
\* safety_factor 1.0; one that leaves no row per statement to an 18-column
\* table; one whose product is rounded below a whole number (90 * 0.7 for
\* the 8 columns of permanent_user_properties); one with no
\* max_rows_per_insert
RepositorySettings ==
    {settings,
     [max_params_per_query |-> 100, safety_num |-> SafetyDen,
      max_rows_per_insert |-> <<1000>>],
     [max_params_per_query |-> 20, safety_num |-> 9,
      max_rows_per_insert |-> <<MaxRowsPerInsert>>],
     [max_params_per_query |-> 720, safety_num |-> 7,
      max_rows_per_insert |-> <<1000>>],
     [max_params_per_query |-> 100, safety_num |-> SafetyDen,
      max_rows_per_insert |-> <<>>]}

InitRepositorySpec ==
    /\ \E db \in RepositorySettings : InitRepository(db)
    /\ lines = <<>>
    /\ tmp_user_properties = <<>>
    /\ submitted = <<>>
    /\ batch_size = 1
    /\ InitRun

NextRepository ==
    \/ \E op \in Operations : RepositoryCall(op)
    \/ \E table \in Tables : \E n \in InsertSizes(table) :
          \E columns \in RowWidths(table) : \E conflicts \in {{}, {2}} :
             InsertBatchCall(table, n, columns, conflicts)
    \/ GetConn
    \/ GetConnRaises
    \/ StatementReturns
    \/ StatementRaises

SpecRepository == InitRepositorySpec /\ [][NextRepository]_vars

\* ------------------------------------- the transformer, on any raw record
\* The catalog handed to the transformer as `mappings`: gender is a string
\* with a value map, app_city a string with transform lowercase_first, age
\* an integer.
mappings ==
    [permanent |->
        <<[target |-> "gender", sources |-> <<"Gender">>, type |-> "string",
           transform |-> "none", value_map |-> TRUE]>>,
     changeable |->
        <<[target |-> "app_city", sources |-> <<"City">>, type |-> "string",
           transform |-> "lowercase_first", value_map |-> FALSE],
          [target |-> "age", sources |-> <<"Age">>, type |-> "integer",
           transform |-> "none", value_map |-> FALSE]>>]

\* field["value_map"].get(value, value) with the map {"Male": "m"}
value_map_get(text) == IF text = "Male" THEN "m" ELSE text

\* str.lower()
lower(text) ==
    CASE text = "Moscow" -> "moscow"
      [] text = "Male" -> "male"
      [] OTHER -> text

\* the texts int() and UUID() accept, and fromisoformat after Z -> +00:00
IntegerTexts == {"42", "31"}

UuidTexts == {"11111111-1111-1111-1111-111111111111"}

fromisoformat(text) ==
    IF text = "2024-05-01T10:00:00Z"
    THEN <<[type |-> "datetime", text |-> "2024-05-01T10:00:00+00:00"]>>
    ELSE <<>>

ErrorEntry(key, value, reason) == [key |-> key, value |-> value, reason |-> reason]

known_keys ==
    UNION {Range(mappings[section][k].sources) :
              section \in {"permanent"}, k \in DOMAIN mappings.permanent}
    \cup UNION {Range(mappings.changeable[k].sources) :
                  k \in DOMAIN mappings.changeable}
    \cup {"EHR_ID"}

\* safe_dict: a value that is no mapping becomes the empty mapping
safe_dict(value) == IF "type" \in DOMAIN value THEN <<>> ELSE value

\* dict.get(key)
get(mapping, key) == IF key \in DOMAIN mapping THEN mapping[key] ELSE Absent

\* the first source whose value is neither None nor "N/A"
RECURSIVE first_value(_, _)
first_value(sources, user_props) ==
    IF sources = <<>> THEN Absent
    ELSE LET raw_value == get(user_props, Head(sources))
         IN IF raw_value # Absent /\ raw_value # Str("N/A") THEN raw_value
            ELSE first_value(Tail(sources), user_props)

\* extract_value(field): the value, the errors it records, the exception
\* that leaves it ("" when none does)
extract_field(field, user_props) ==
    LET value == first_value(field.sources, user_props)
        done(v, errs, exc) == [value |-> v, errors |-> errs, raised |-> exc]
    IN IF value = Absent THEN done(Absent, <<>>, "")
       ELSE IF field.type = "string"
       THEN IF field.transform = "lowercase_first" /\ value.type # "str"
            THEN done(Absent, <<>>, "AttributeError")
            ELSE LET lowered == IF field.transform = "lowercase_first"
                                THEN Str(lower(value.text)) ELSE value
                 IN IF ~field.value_map THEN done(lowered, <<>>, "")
                    ELSE IF lowered.type = "list"
                    THEN done(Absent, <<>>, "TypeError")
                    ELSE IF lowered.type = "str"
                    THEN done(Str(value_map_get(lowered.text)), <<>>, "")
                    ELSE done(lowered, <<>>, "")
       ELSE IF value.type = "int" THEN done(value, <<>>, "")
            ELSE IF value.type = "str" /\ value.text \in IntegerTexts
            THEN done(Number(value.text), <<>>, "")
            ELSE done(Absent,
                      <<ErrorEntry(field.target, value, "Invalid integer")>>, "")

\* the loop `for field in mappings[section]` over extract_value
RECURSIVE extract_section(_, _)
extract_section(fields, user_props) ==
    IF fields = <<>>
    THEN [data |-> <<>>, errors |-> <<>>, raised |-> "", evaluated |-> <<>>]
    ELSE LET x == extract_field(Head(fields), user_props)
             rest == extract_section(Tail(fields), user_props)
         IN IF x.raised # ""
            THEN [data |-> <<>>, errors |-> x.errors, raised |-> x.raised,
                  evaluated |-> <<Head(fields).target>>]
            ELSE [data |-> <<x.value>> \o rest.data,
                  errors |-> x.errors \o rest.errors, raised |-> rest.raised,
                  evaluated |-> <<Head(fields).target>> \o rest.evaluated]

\* pydantic accepts None or a str for an Optional[str] field
ValidStr(value) == value.type \in {"absent", "str"}

Rejected(errors) ==
    [status |-> "returned", permanent |-> <<>>, changeable |-> <<>>,
     errors |-> errors, evaluated |-> <<>>]

\* `ehr_id_raw in [None, "N/A", "no ehr", "no_ehr"]`
ehr_id_sentinels == {Absent, Str("N/A"), Str("no ehr"), Str("no_ehr")}

\* transform_single_record(raw_record, source_type), the set of unknown keys
\* being walked in the order unknown_order
transform_record(raw_record, st, unknown_order) ==
    LET uuid_raw == get(raw_record, "uuid")
        event_time_raw == get(raw_record, "event_time")
        user_props ==
            safe_dict(get(raw_record, IF st = "amplitude" THEN "user_properties"
                                      ELSE "user_properties_json"))
        ehr_id_raw == get(user_props, "EHR_ID")
        ehr ==
            IF ehr_id_raw \in ehr_id_sentinels
            THEN [ehr_id |-> Absent, errors |-> <<>>]
            ELSE IF ehr_id_raw.type = "int" THEN [ehr_id |-> ehr_id_raw, errors |-> <<>>]
            ELSE IF ehr_id_raw.type = "str" /\ ehr_id_raw.text \in IntegerTexts
            THEN [ehr_id |-> Number(ehr_id_raw.text), errors |-> <<>>]
            ELSE [ehr_id |-> Absent,
                  errors |-> <<ErrorEntry("EHR_ID", ehr_id_raw, "Invalid integer")>>]
        uuid == IF uuid_raw.type = "str"
                THEN [type |-> "UUID", text |-> uuid_raw.text] ELSE uuid_raw
        event_time == IF event_time_raw.type = "str"
                      THEN fromisoformat(event_time_raw.text)[1]
                      ELSE event_time_raw
        p == extract_section(mappings.permanent, user_props)
        c == extract_section(mappings.changeable, user_props)
        permanent_ok == ehr.ehr_id # Absent /\ ValidStr(p.data[1])
        changeable_ok == ValidStr(get(raw_record, "language")) /\ ValidStr(c.data[1])
    IN IF uuid_raw.type = "str" /\ uuid_raw.text \notin UuidTexts
       THEN Rejected(<<ErrorEntry("uuid", uuid_raw, "Invalid UUID format")>>)
       ELSE IF uuid_raw.type \notin {"str", "UUID"}
       THEN Rejected(<<ErrorEntry("uuid", uuid_raw, "Expected str or UUID")>>)
       ELSE IF event_time_raw = Absent
       THEN Rejected(<<ErrorEntry("event_time", Absent, "Missing event_time")>>)
       ELSE IF event_time_raw.type = "str" /\ fromisoformat(event_time_raw.text) = <<>>
       THEN Rejected(<<ErrorEntry("event_time", event_time_raw,
                                  "Invalid ISO datetime")>>)
       ELSE IF event_time_raw.type \notin {"str", "datetime"}
       THEN Rejected(<<ErrorEntry("event_time", Str(event_time_raw.text),
                                  "Unsupported type")>>)
       ELSE IF DOMAIN user_props \ known_keys # {}
       THEN Rejected([k \in DOMAIN unknown_order |->
                        ErrorEntry(unknown_order[k], user_props[unknown_order[k]],
                                   "Unknown key")])
       ELSE IF p.raised # ""
       THEN [status |-> p.raised, permanent |-> <<>>, changeable |-> <<>>,
             errors |-> <<>>, evaluated |-> p.evaluated]
       ELSE IF c.raised # ""
       THEN [status |-> c.raised, permanent |-> <<>>, changeable |-> <<>>,
             errors |-> <<>>, evaluated |-> p.evaluated \o c.evaluated]
       ELSE [status |-> "returned",
             permanent |->
                 IF permanent_ok
                 THEN <<[ehr_id |-> ehr.ehr_id, first_login_at |-> event_time,
                         gender |-> p.data[1]]>>
                 ELSE <<>>,
             changeable |->
                 IF changeable_ok
                 THEN <<[ehr_id |-> ehr.ehr_id, uuid |-> uuid,
                         event_time |-> event_time,
                         language |-> get(raw_record, "language"),
                         app_city |-> c.data[1], age |-> c.data[2]]>>
                 ELSE <<>>,
             errors |->
                 ehr.errors \o p.errors \o c.errors
                 \o (IF ehr.ehr_id # Absent /\ ~permanent_ok
                     THEN <<ErrorEntry("permanent", Absent, "validation")>>
                     ELSE <<>>)
                 \o (IF ~changeable_ok
                     THEN <<ErrorEntry("changeable", Absent, "validation")>>
                     ELSE <<>>),
             evaluated |-> p.evaluated \o c.evaluated]

\* The order in which `for key in unknown_keys` walks the set,
\* transformer.py 101-106. `set(user_props.keys()) - known_keys` is built
\* from all the keys of the nested dict, and the walk follows the slots the
\* unknown keys end in. A key's slot comes from its string hash, which the
\* interpreter salts with its hash seed (PYTHONHASHSEED, one per process);
\* keys whose probes meet, known keys included, take their slots in the
\* order they are added, which is the order in which the keys were inserted
\* into the dict. The walk is therefore a function of the seed and of the
\* whole insertion order of the nested dict, and the same dict walked twice
\* by one interpreter is walked in the same order. A seed is modelled by
\* what it does to the keys of the record at hand: under seeds of class 1
\* and of class 2 the unknown keys take their slots one way round and the
\* other however the dict was filled; under seeds of class 3 the slots they
\* end in follow the insertion order of the dict, and either order of the
\* slots comes from some insertion order.
HashSeeds == {1, 2, 3}

KeyOrder == <<"CompletelyNewKey", "AnotherNewKey">>

Reverse(seq) == [k \in DOMAIN seq |-> seq[Len(seq) + 1 - k]]

set_order_first(keys, slots) ==
    LET In(k) == k \in keys
    IN SubSeq(SelectSeq(KeyOrder, In), 1, 1)

\* keys: the set walked; slots: its keys in the order of the slots they
\* took when the set was built from the dict
set_order(keys, slots) ==
    LET In(k) == k \in keys
    IN SelectSeq(slots, In)

unknown_keys(call) ==
    DOMAIN safe_dict(get(call.raw_record,
                         IF call.source_type = "amplitude" THEN "user_properties"
                         ELSE "user_properties_json")) \ known_keys

\* the raw records the transformer is called on
Missing == [type |-> "missing", text |-> ""]

GoodUuid == Str("11111111-1111-1111-1111-111111111111")

GoodTime == Str("2024-05-01T10:00:00Z")

Tops ==
    {[uuid |-> u, event_time |-> GoodTime, language |-> Str("ru")] :
        u \in {GoodUuid, Absent, Str("not-a-uuid"), Number("7"),
               [type |-> "UUID", text |-> GoodUuid.text]}}
    \cup {[uuid |-> GoodUuid, event_time |-> t, language |-> Str("ru")] :
            t \in {Absent, Str("yesterday"), Number("1714557600"),
                   [type |-> "datetime", text |-> "2024-05-01T10:00:00+00:00"]}}
    \cup {[uuid |-> GoodUuid, event_time |-> GoodTime, language |-> l] :
            l \in {Absent, Number("1")}}
    \cup {[uuid |-> Str("not-a-uuid"), event_time |-> Absent, language |-> Absent]}

BagChoices ==
    [EHR_ID : {Missing, Str("N/A"), Str("no ehr"), Str("no_ehr"), Str("42"),
               Str("abc"), List},
     Gender : {Missing, Str("Male"), Number("1"), List},
     City : {Missing, Str("Moscow"), Number("495")},
     Age : {Missing, Str("31"), Str("abc")},
     CompletelyNewKey : {Missing, Str("x")},
     AnotherNewKey : {Missing, Str("y")}]

Bag(choice) == [k \in {key \in DOMAIN choice : choice[key] # Missing} |-> choice[k]]

NestedBags == {Bag(choice) : choice \in BagChoices} \cup {Str("not a mapping")}

RawRecord(top, bag, st) ==
    [uuid |-> top.uuid, event_time |-> top.event_time, language |-> top.language,
     user_properties |-> IF st = "amplitude" THEN bag ELSE Absent,
     user_properties_json |-> IF st = "tmp_table" THEN bag ELSE Absent]

\* the orders of the slots the unknown keys of a nested bag can end in when
\* an interpreter with the seed builds the set from the dict, over the
\* orders in which the keys of the dict can have been inserted
SlotOrders(bag, hash_seed) ==
    LET U == IF bag = Str("not a mapping") THEN {} ELSE DOMAIN bag \ known_keys
        In(k) == k \in U
        by_hash == SelectSeq(KeyOrder, In)
    IN IF hash_seed = 1 THEN {by_hash}
       ELSE IF hash_seed = 2 THEN {Reverse(by_hash)}
       ELSE {by_hash, Reverse(by_hash)}

\* the nested value of the record of a call
BagOf(call) ==
    get(call.raw_record,
        IF call.source_type = "amplitude" THEN "user_properties"
        ELSE "user_properties_json")

TransformCalls(bag, h) ==
    {[raw_record |-> RawRecord(top, bag, st), source_type |-> st,
      hash_seed |-> h, slots |-> o] :
        top \in Tops, st \in {"amplitude", "tmp_table"},
        o \in SlotOrders(bag, h)}

\* one call of transform_single_record on the record
Transform ==
    /\ Len(transformed) < MaxCalls
    /\ transformed' =
           Append(transformed,
                  transform_record(transform_call.raw_record,
                                   transform_call.source_type,
                                   set_order(unknown_keys(transform_call),
                                             transform_call.slots)))
    /\ UNCHANGED <<settings_db, singleton, s3, repo, borrowed, transform_call, orchestrator>>

\* the caller builds the record anew with the same keys and values, the
\* keys of the nested dict, known ones included, inserted in another order
\* (the same JSON object with its members written in another order): a
\* record equal to the one before, whose unknown keys end in other slots
\* when the seed lets the slots follow the insertion order
RecordRebuilt ==
    /\ transformed # <<>>
    /\ Len(transformed) < MaxCalls
    /\ \E o \in SlotOrders(BagOf(transform_call), transform_call.hash_seed)
                 \ {transform_call.slots} :
           transform_call' = [transform_call EXCEPT !.slots = o]
    /\ UNCHANGED <<settings_db, singleton, s3, repo, borrowed, transformed, orchestrator>>

\* the service is restarted: the next call is made by a new interpreter
InterpreterRestart ==
    /\ transformed # <<>>
    /\ Len(transformed) < MaxCalls
    /\ \E h \in HashSeeds \ {transform_call.hash_seed} :
          \E o \in SlotOrders(BagOf(transform_call), h) :
             transform_call' = [transform_call EXCEPT !.hash_seed = h,
                                                      !.slots = o]
    /\ UNCHANGED <<settings_db, singleton, s3, repo, borrowed, transformed, orchestrator>>

InitTransformer ==
    /\ settings_db = settings
    /\ singleton = NoSingleton
    /\ s3 = S3Client
    /\ repo = NoCall
    /\ borrowed = 0
    /\ \E bag \in NestedBags, h \in HashSeeds :
          transform_call \in TransformCalls(bag, h)
    /\ transformed = NotTransformed
    /\ workers = NoWorkers
    /\ reader = NoReader
    /\ lines = <<>>
    /\ tmp_user_properties = <<>>
    /\ submitted = <<>>
    /\ batch_size = 1
    /\ InitRun

NextTransformer == Transform \/ InterpreterRestart \/ RecordRebuilt

SpecTransformer == InitTransformer /\ [][NextTransformer]_vars

\* ----------------------------------------- process_source calls side by side
\* The endpoint is a plain `def`, which the host runs on a thread pool: two
\* requests make two process_source calls at once. Each call has its own
\* existing_permanent, last_change and pending buffers (locals and closure
\* variables of the call); the warehouse tables are shared. One step is one
\* statement of a call, or its work in memory up to the next statement.
Workers == {1, 2}

NewWorker(input) ==
    [pc |-> "idle", rows |-> input, pos |-> 0, existing_permanent |-> {},
     last_change |-> <<>>, pending_permanent |-> <<>>,
     pending_changeable |-> <<>>, final |-> FALSE, status |-> "none",
     inserted |-> {}, chunks |-> <<>>, inserted_ids |-> {}]

WorkerInputs ==
    UNION {{[i \in 1..n |-> Record(f, i)] : f \in Sources(n, {1}, {})} :
              n \in 1..MaxWorkerRows}

\* what leaves the worker steps alone
besides_workers == <<settings_db, singleton, s3, repo, borrowed, transform_call, transformed,
                     reader,
                     lines, tmp_user_properties, batch_size, pc, start,
                     current_day, rows, pos, existing_permanent, last_change,
                     pending_permanent, pending_changeable, batch_uuids,
                     processed_total, outcome, http_response, runs, source_type,
                     prev, hist, submitted>>

besides_workers_and_reader ==
    <<lines, tmp_user_properties, batch_size, pc, start, current_day, rows, pos,
      existing_permanent, last_change, pending_permanent, pending_changeable,
      batch_uuids, processed_total, outcome, http_response, runs, source_type,
      prev, hist, submitted>>

\* the chunks rows[i : i + max_rows_per_batch] of the loop of insert_batch,
\* 169-170
RECURSIVE chunks_of(_, _)
chunks_of(to_insert, max_rows_per_batch) ==
    IF to_insert = <<>> THEN <<>>
    ELSE LET first == chunk(to_insert, 0, max_rows_per_batch)
         IN <<first>> \o chunks_of(SubSeq(to_insert, Len(first) + 1, Len(to_insert)),
                                   max_rows_per_batch)

\* flush is over: the loop goes on, or process_source returns, 196-199
end_flush(worker) ==
    IF worker.final THEN [worker EXCEPT !.status = "completed", !.pc = "done"]
    ELSE [worker EXCEPT !.pc = "run"]

\* the changeable half of flush up to its first statement, 132-145: the
\* candidates are compared and last_change is set before anything is stored
begin_changeable(worker) ==
    LET sel == select_changed(worker.pending_changeable, worker.last_change)
        compared == [worker EXCEPT !.last_change = sel.last_change]
    IN IF worker.pending_changeable # <<>> /\ sel.to_insert # <<>>
       THEN [compared EXCEPT
                !.chunks = chunks_of(sel.to_insert,
                                     max_rows_for_table("changeable_user_properties")),
                !.pc = "flush_changeable"]
       ELSE end_flush([compared EXCEPT !.pending_changeable = <<>>])

\* flush up to its first statement, 110-117
begin_flush(worker) ==
    LET to_insert == SelectSeq(worker.pending_permanent,
                               LAMBDA p : p.ehr_id \notin worker.existing_permanent)
    IN IF worker.pending_permanent # <<>> /\ to_insert # <<>>
       THEN [worker EXCEPT
                !.chunks = chunks_of(to_insert,
                                     max_rows_for_table("permanent_user_properties")),
                !.inserted_ids = {},
                !.pc = "flush_permanent"]
       ELSE begin_changeable([worker EXCEPT !.pending_permanent = <<>>])

\* repo.get_all_permanent_ehr_ids(), 79; the ranked query that follows is
\* issued for the ehr_ids that are not None, when there are any (323-338)
WorkerPreloadPermanent(w) ==
    /\ workers[w].pc = "idle"
    /\ LET ehr_set == get_all_permanent_ehr_ids(permanent_user_properties)
       IN workers' = [workers EXCEPT
                         ![w].existing_permanent = ehr_set,
                         ![w].pc = IF ehr_set \ {None} # {} THEN "preload_ranked"
                                   ELSE "preload_null"]
    /\ UNCHANGED <<permanent_user_properties, changeable_user_properties,
                   besides_workers>>

\* the first statement of get_latest_changeable_for_ehrs, 325-338: the row
\* ranked first of each ehr_id of the list
WorkerPreloadRanked(w) ==
    /\ workers[w].pc = "preload_ranked"
    /\ \E result \in get_latest_changeable_for_ehrs(
                        changeable_user_properties,
                        workers[w].existing_permanent \ {None}) :
          workers' = [workers EXCEPT ![w].last_change = result,
                                     ![w].pc = "preload_null"]
    /\ UNCHANGED <<permanent_user_properties, changeable_user_properties,
                   besides_workers>>

\* its second statement, 340-350: the latest row with ehr_id IS NULL; then
\* the object is asked for, 246-260, and the loop over its lines begins
WorkerPreloadNull(w) ==
    /\ workers[w].pc = "preload_null"
    /\ \E row \in get_latest_changeable_for_ehrs(changeable_user_properties,
                                                {None}) :
          LET result == [k \in DOMAIN workers[w].last_change \cup DOMAIN row |->
                            IF k \in DOMAIN row THEN row[k]
                            ELSE workers[w].last_change[k]]
          IN workers' = [workers EXCEPT
                            ![w].last_change = result,
                            ![w].status = IF get_object_raises THEN "interrupted"
                                          ELSE @,
                            ![w].pc = IF get_object_raises THEN "done" ELSE "run"]
    /\ UNCHANGED <<permanent_user_properties, changeable_user_properties,
                   besides_workers>>

\* one record of the loop of process_day up to the size trigger, 158-196,
\* and, when it fires, flush up to its first statement
WorkerRecord(w) ==
    /\ workers[w].pc = "run"
    /\ workers[w].pos < Len(workers[w].rows)
    /\ LET t == transform_single_record(workers[w].rows[workers[w].pos + 1])
           pp == workers[w].pending_permanent \o t.permanent
           pch == workers[w].pending_changeable \o t.changeable
           appended == [workers[w] EXCEPT !.pending_permanent = pp,
                                          !.pending_changeable = pch,
                                          !.pos = @ + 1]
       IN workers' = [workers EXCEPT
                         ![w] = IF size_trigger(pp, pch) THEN begin_flush(appended)
                                ELSE appended]
    /\ UNCHANGED <<permanent_user_properties, changeable_user_properties,
                   besides_workers>>

\* the end of the loop: the last flush, 198, up to its first statement
WorkerEndOfInput(w) ==
    /\ workers[w].pc = "run"
    /\ workers[w].pos = Len(workers[w].rows)
    /\ workers' = [workers EXCEPT
                      ![w] = begin_flush([workers[w] EXCEPT !.final = TRUE])]
    /\ UNCHANGED <<permanent_user_properties, changeable_user_properties,
                   besides_workers>>

\* one INSERT of the permanent insert_batch of flush, 117-123, committed on
\* its own; after the last one the ids returned enter existing_permanent and
\* the buffer is cleared, 127-129
WorkerFlushPermanent(w) ==
    /\ workers[w].pc = "flush_permanent"
    /\ LET q == insert_batch_query(permanent_user_properties,
                                   Head(workers[w].chunks), permanent_on_conflict,
                                   "ehr_id", "ehr_id")
           ids == workers[w].inserted_ids \cup Range(q.ids)
           rest == Tail(workers[w].chunks)
       IN /\ permanent_user_properties' = q.table
          /\ workers' =
                [workers EXCEPT
                    ![w] = IF rest # <<>>
                           THEN [@ EXCEPT !.chunks = rest, !.inserted_ids = ids]
                           ELSE begin_changeable(
                                    [@ EXCEPT !.chunks = <<>>,
                                              !.inserted_ids = {},
                                              !.existing_permanent = @ \cup ids,
                                              !.pending_permanent = <<>>])]
    /\ UNCHANGED <<changeable_user_properties, besides_workers>>

\* one INSERT of the changeable insert_batch of flush, 144-148; after the
\* last one the buffer is cleared, 153
WorkerFlushChangeable(w) ==
    /\ workers[w].pc = "flush_changeable"
    /\ LET q == insert_batch_query(changeable_user_properties,
                                   Head(workers[w].chunks), "", "", "uuid")
           rest == Tail(workers[w].chunks)
           stored == [workers[w] EXCEPT
                         !.inserted =
                             @ \cup ((Len(changeable_user_properties) + 1)
                                        ..Len(q.table)),
                         !.chunks = rest]
       IN /\ changeable_user_properties' = q.table
          /\ workers' =
                [workers EXCEPT
                    ![w] = IF rest # <<>> THEN stored
                           ELSE end_flush([stored EXCEPT
                                              !.pending_changeable = <<>>])]
    /\ UNCHANGED <<permanent_user_properties, besides_workers>>

InitConcurrent ==
    /\ workers \in [Workers -> {NewWorker(input) : input \in WorkerInputs}]
    /\ reader = NoReader
    /\ settings_db \in {settings, [settings EXCEPT !.max_rows_per_insert = <<1>>]}
    /\ singleton = NoSingleton
    /\ s3 \in S3Clients
    /\ repo = NoCall
    /\ borrowed = 0
    /\ transform_call = NoTransform
    /\ transformed = NotTransformed
    /\ lines = <<>>
    /\ tmp_user_properties = <<>>
    /\ submitted = <<>>
    /\ batch_size \in 1..MaxBatch
    /\ InitRun

NextConcurrent ==
    \E w \in Workers :
        \/ WorkerPreloadPermanent(w)
        \/ WorkerPreloadRanked(w)
        \/ WorkerPreloadNull(w)
        \/ WorkerRecord(w)
        \/ WorkerEndOfInput(w)
        \/ WorkerFlushPermanent(w)
        \/ WorkerFlushChangeable(w)

SpecConcurrent == InitConcurrent /\ [][NextConcurrent]_vars

\* ------------------------------------------------- the archive reader
\* AmplitudeClient.iter_lines(start, end). Its one caller hands it dates at
\* midnight, so a date is a day number. The provider answers the export of
\* a day with an HTTP error, with bytes that are no zip, or with a zip of
\* entries: a .gz of lines (the text "  " is a blank line), a .gz that does
\* not decompress, or an entry with another name. An archive may hold two
\* entries under one name.
GzMember == [name |-> "events.json.gz", decompresses |-> TRUE,
             text |-> <<"event", "  ", "event">>]

\* an entry stored under the name of GzMember, with other lines
SameNameMember == [name |-> "events.json.gz", decompresses |-> TRUE,
                   text |-> <<"earlier">>]

SecondMember == [name |-> "more.json.gz", decompresses |-> TRUE,
                 text |-> <<"event">>]

CorruptMember == [name |-> "broken.json.gz", decompresses |-> FALSE, text |-> <<>>]

OtherMember == [name |-> "readme.txt", decompresses |-> FALSE, text |-> <<"note">>]

DayExports ==
    {[status |-> "http_error", members |-> <<>>],
     [status |-> "bad_zip", members |-> <<>>]}
    \cup {[status |-> "ok", members |-> m] :
            m \in {<<>>, <<GzMember>>, <<OtherMember, GzMember>>,
                   <<GzMember, CorruptMember>>, <<CorruptMember, GzMember>>,
                   <<GzMember, SecondMember>>, <<SameNameMember, GzMember>>}}

\* gz_name.endswith(".gz")
IsGz(member) ==
    member.name \in {"events.json.gz", "more.json.gz", "broken.json.gz"}

\* daily_zip.open(gz_name), 78: the entry the directory of the archive holds
\* under the name, which is the last one stored under it
open(members, gz_name) ==
    CHOOSE i \in DOMAIN members :
        /\ members[i].name = gz_name
        /\ \A j \in DOMAIN members : members[j].name = gz_name => j <= i

\* the lines of a member that `if line.strip()` lets through, each with the
\* day, the member and the place it comes from
YieldedFrom(day, m, member) ==
    LET kept == SelectSeq([i \in DOMAIN member.text |->
                              [day |-> day, member |-> m, line |-> i,
                               text |-> member.text[i]]],
                          LAMBDA l : l.text # "  ")
    IN kept

\* current += timedelta(days=1), and the same with a day skipped
next_current_skipping(current) == current + 2

next_current(current) == current + 1

\* date_max is the day number of 9999-12-31, the last day a datetime holds
NewReader(s, e, provider, date_max) ==
    [phase |-> "loop", start |-> s, end |-> e, current |-> s, member |-> 0,
     opened |-> 0, line |-> 0, date_max |-> date_max,
     provider |-> provider, requested |-> <<>>, yielded |-> <<>>]

\* the lines the opened member has still to yield
to_yield ==
    SelectSeq(YieldedFrom(reader.current, reader.opened,
                          reader.provider[reader.current].members[reader.opened]),
              LAMBDA l : l.line > reader.line)

\* `while current <= end`: the request of export_day(current) is sent and
\* the generator waits at the await, 66-69
ReaderRequest ==
    /\ reader.phase = "loop"
    /\ reader.current <= reader.end
    /\ reader' = [reader EXCEPT !.requested = Append(@, reader.current),
                                !.phase = "export_day"]
    /\ UNCHANGED <<settings_db, singleton, s3, repo, borrowed, transform_call, transformed,
                   workers, permanent_user_properties,
                   changeable_user_properties, besides_workers_and_reader>>

\* the await returns the bytes and ZipFile reads them, or export_day or
\* ZipFile raises and the exception leaves the generator, 69-74
ReaderExported ==
    /\ reader.phase = "export_day"
    /\ reader' = [reader EXCEPT
                     !.member = 1,
                     !.phase = IF reader.provider[reader.current].status = "ok"
                               THEN "day" ELSE "raised"]
    /\ UNCHANGED <<settings_db, singleton, s3, repo, borrowed, transform_call, transformed,
                   workers, permanent_user_properties,
                   changeable_user_properties, besides_workers_and_reader>>

\* the task that runs the generator is cancelled while it waits at the
\* await of 69: CancelledError is raised there, `except Exception` (70)
\* does not catch it, and it leaves the generator with the day requested
\* and nothing of it yielded, whatever the provider would have answered
ReaderCancelled ==
    /\ reader.phase = "export_day"
    /\ reader' = [reader EXCEPT !.phase = "cancelled"]
    /\ UNCHANGED <<settings_db, singleton, s3, repo, borrowed, transform_call, transformed,
                   workers, permanent_user_properties,
                   changeable_user_properties, besides_workers_and_reader>>

\* one name of namelist(), 75-81: skipped, or the entry under the name is
\* opened and decompressed, or the decompression raises
ReaderMember ==
    /\ reader.phase = "day"
    /\ reader.member <= Len(reader.provider[reader.current].members)
    /\ LET members == reader.provider[reader.current].members
           gz_name == members[reader.member].name
       IN reader' =
              IF ~IsGz(members[reader.member])
              THEN [reader EXCEPT !.member = @ + 1]
              ELSE IF ~members[open(members, gz_name)].decompresses
              THEN [reader EXCEPT !.phase = "raised"]
              ELSE [reader EXCEPT !.phase = "member",
                                  !.opened = open(members, gz_name),
                                  !.line = 0]
    /\ UNCHANGED <<settings_db, singleton, s3, repo, borrowed, transform_call, transformed,
                   workers, permanent_user_properties,
                   changeable_user_properties, besides_workers_and_reader>>

\* `yield line`, 82-84: the next line that is not blank is handed to the
\* consumer and the generator waits there
ReaderLine ==
    /\ reader.phase = "member"
    /\ to_yield # <<>>
    /\ reader' = [reader EXCEPT !.yielded = Append(@, Head(to_yield)),
                                !.line = Head(to_yield).line]
    /\ UNCHANGED <<settings_db, singleton, s3, repo, borrowed, transform_call, transformed,
                   workers, permanent_user_properties,
                   changeable_user_properties, besides_workers_and_reader>>

\* the lines of the member are exhausted: the next name
ReaderMemberEnd ==
    /\ reader.phase = "member"
    /\ to_yield = <<>>
    /\ reader' = [reader EXCEPT !.phase = "day", !.member = @ + 1,
                                !.opened = 0, !.line = 0]
    /\ UNCHANGED <<settings_db, singleton, s3, repo, borrowed, transform_call, transformed,
                   workers, permanent_user_properties,
                   changeable_user_properties, besides_workers_and_reader>>

\* the consumer closes the generator where it waits, at a `yield line`: the
\* with blocks are left and nothing more is read
ReaderClose ==
    /\ reader.phase = "member"
    /\ reader.line > 0
    /\ reader' = [reader EXCEPT !.phase = "closed"]
    /\ UNCHANGED <<settings_db, singleton, s3, repo, borrowed, transform_call, transformed,
                   workers, permanent_user_properties,
                   changeable_user_properties, besides_workers_and_reader>>

\* the zip is exhausted: the next day, 85; past the last day of a datetime
\* the addition raises OverflowError
ReaderDayEnd ==
    /\ reader.phase = "day"
    /\ reader.member > Len(reader.provider[reader.current].members)
    /\ reader' = IF reader.current >= reader.date_max
                 THEN [reader EXCEPT !.phase = "raised"]
                 ELSE [reader EXCEPT !.current = next_current(@),
                                     !.phase = "loop"]
    /\ UNCHANGED <<settings_db, singleton, s3, repo, borrowed, transform_call, transformed,
                   workers, permanent_user_properties,
                   changeable_user_properties, besides_workers_and_reader>>

\* the loop condition fails: the generator is exhausted
ReaderEnd ==
    /\ reader.phase = "loop"
    /\ reader.current > reader.end
    /\ reader' = [reader EXCEPT !.phase = "ended"]
    /\ UNCHANGED <<settings_db, singleton, s3, repo, borrowed, transform_call, transformed,
                   workers, permanent_user_properties,
                   changeable_user_properties, besides_workers_and_reader>>

InitReader ==
    /\ \E s, e \in 0..MaxReaderDay :
          \E provider \in [0..MaxReaderDay -> DayExports] :
             \E date_max \in {MaxReaderDay, datetime_max} :
                reader = NewReader(s, e, provider, date_max)
    /\ workers = NoWorkers
    /\ settings_db = settings
    /\ singleton = NoSingleton
    /\ s3 = S3Client
    /\ repo = NoCall
    /\ borrowed = 0
    /\ transform_call = NoTransform
    /\ transformed = NotTransformed
    /\ lines = <<>>
    /\ tmp_user_properties = <<>>
    /\ submitted = <<>>
    /\ batch_size = 1
    /\ InitRun

NextReader ==
    \/ ReaderRequest
    \/ ReaderExported
    \/ ReaderCancelled
    \/ ReaderMember
    \/ ReaderLine
    \/ ReaderMemberEnd
    \/ ReaderClose
    \/ ReaderDayEnd
    \/ ReaderEnd

SpecReader == InitReader /\ [][NextReader]_vars

\* ------------------------- get_latest_changeable_for_ehrs, call by call
\* the statements a call with the list ehr_ids issues: none for an empty
\* list, the ranked query when an id is not None, the IS NULL query when one
\* is None
latest_queries(ehr_ids) ==
    LET non_null == SelectSeq(ehr_ids, LAMBDA eid : eid # None)
        has_null == \E i \in DOMAIN ehr_ids : ehr_ids[i] = None
    IN IF ehr_ids = <<>> THEN <<>>
       ELSE (IF non_null # <<>> THEN <<"ranked">> ELSE <<>>)
            \o (IF has_null THEN <<"ehr_id IS NULL">> ELSE <<>>)

\* the history rows a table may hold: two users and the null ehr_id, two
\* times, so that rows of one ehr_id may share their event_time
HistoryRows(n) ==
    [1..n -> [ehr_id : {None, 1, 2}, event_time : {1, 2}]]

EhrIdLists == {<<>>} \cup [1..1 -> {None, 1, 2}] \cup [1..2 -> {None, 1, 2}]

\* the call begins, 318-326: an empty list returns {} at once; otherwise
\* result = {} and the statements follow, each an execute of its own that
\* borrows a connection and puts it back. The mapping being built is kept in
\* last_change, as the preload of process_source keeps the one returned.
GetLatestChangeable(ehr_ids) ==
    /\ repo.status # "running"
    /\ last_change' = <<>>
    /\ repo' = [NoCall EXCEPT !.op = "get_latest_changeable_for_ehrs",
                              !.ids = ehr_ids,
                              !.status = IF latest_queries(ehr_ids) = <<>>
                                         THEN "returned" ELSE "running"]
    /\ UNCHANGED <<settings_db, singleton, s3, borrowed, transform_call, transformed, workers,
                   reader, lines, tmp_user_properties, batch_size,
                   permanent_user_properties, changeable_user_properties, pc,
                   start, current_day, rows, pos, existing_permanent,
                   pending_permanent, pending_changeable, batch_uuids,
                   processed_total, outcome, http_response, runs, source_type,
                   prev, hist, submitted>>

\* the statement the running call issues next
latest_query_due ==
    IF repo.op = "get_latest_changeable_for_ehrs" /\ repo.status = "running"
    THEN <<latest_queries(repo.ids)[Len(repo.statements) + 1]>>
    ELSE <<>>

\* repo after the statement `query` read the table: the statement is kept
\* with the number of rows the table held when it ran, and the call returns
\* after its last statement
latest_query_done(query) ==
    [repo EXCEPT
        !.statements = Append(@, [query |-> query,
                                  seen |-> Len(changeable_user_properties)]),
        !.status = IF Len(repo.statements) + 1 = Len(latest_queries(repo.ids))
                   THEN "returned" ELSE "running"]

\* the ranked statement, 327-341: row number 1 of each non-null id listed
LatestRanked ==
    /\ latest_query_due = <<"ranked">>
    /\ \E rows_1 \in get_latest_changeable_non_null(changeable_user_properties,
                                                    Range(repo.ids)) :
          last_change' = rows_1
    /\ repo' = latest_query_done("ranked")
    /\ UNCHANGED <<settings_db, singleton, s3, borrowed, transform_call, transformed, workers,
                   reader, lines, tmp_user_properties, batch_size,
                   permanent_user_properties, changeable_user_properties, pc,
                   start, current_day, rows, pos, existing_permanent,
                   pending_permanent, pending_changeable, batch_uuids,
                   processed_total, outcome, http_response, runs, source_type,
                   prev, hist, submitted>>

\* the IS NULL statement, 343-353: the row it returns, if any, goes under
\* the key None beside what the ranked statement gave
LatestNull ==
    /\ latest_query_due = <<"ehr_id IS NULL">>
    /\ \E row \in get_latest_changeable_for_ehrs(changeable_user_properties,
                                                 {None}) :
          last_change' = [k \in DOMAIN last_change \cup DOMAIN row |->
                             IF k \in DOMAIN row THEN row[k] ELSE last_change[k]]
    /\ repo' = latest_query_done("ehr_id IS NULL")
    /\ UNCHANGED <<settings_db, singleton, s3, borrowed, transform_call, transformed, workers,
                   reader, lines, tmp_user_properties, batch_size,
                   permanent_user_properties, changeable_user_properties, pc,
                   start, current_day, rows, pos, existing_permanent,
                   pending_permanent, pending_changeable, batch_uuids,
                   processed_total, outcome, http_response, runs, source_type,
                   prev, hist, submitted>>

\* another thread stores a history row (the INSERT of a flush of another
\* process_source call, each statement committed on its own): before the
\* call, between its two statements or after it
LatestStored ==
    /\ Len(changeable_user_properties) < MaxHistory
    /\ \E eid \in {None, 1, 2}, t \in {1, 2} :
          changeable_user_properties' =
              Append(changeable_user_properties,
                     [ehr_id |-> eid,
                      uuid |-> Len(changeable_user_properties) + 1,
                      event_time |-> t, age |-> None,
                      session_id |-> Len(changeable_user_properties) + 1])
    /\ UNCHANGED <<settings_db, singleton, s3, repo, borrowed, transform_call,
                   transformed, workers, reader, lines, tmp_user_properties,
                   batch_size, permanent_user_properties, pc, start,
                   current_day, rows, pos, existing_permanent, last_change,
                   pending_permanent, pending_changeable, batch_uuids,
                   processed_total, outcome, http_response, runs, source_type,
                   prev, hist, submitted>>

InitLatest ==
    /\ \E n \in 0..MaxHistory :
          \E h \in HistoryRows(n) :
             changeable_user_properties =
                 [i \in 1..n |->
                     [ehr_id |-> h[i].ehr_id, uuid |-> i,
                      event_time |-> h[i].event_time, age |-> None,
                      session_id |-> i]]
    /\ InitRepository(settings)
    /\ lines = <<>>
    /\ tmp_user_properties = <<>>
    /\ submitted = <<>>
    /\ batch_size = 1
    /\ permanent_user_properties = <<>>
    /\ pc = "idle"
    /\ start = 0
    /\ current_day = 0
    /\ rows = <<>>
    /\ pos = 0
    /\ existing_permanent = {}
    /\ last_change = <<>>
    /\ pending_permanent = <<>>
    /\ pending_changeable = <<>>
    /\ batch_uuids = <<>>
    /\ processed_total = 0
    /\ outcome = NoOutcome
    /\ http_response = NoResponse
    /\ runs = 0
    /\ source_type = "none"
    /\ prev = [source_type |-> "none", start |-> 0, status |-> "none",
               failed |-> <<>>, processed |-> 0]
    /\ hist = NewHist

NextLatest ==
    \/ \E ehr_ids \in EhrIdLists : GetLatestChangeable(ehr_ids)
    \/ LatestRanked
    \/ LatestNull
    \/ LatestStored

SpecLatest == InitLatest /\ [][NextLatest]_vars

\* ================================================================== claims
Idle == pc = "idle" /\ runs > 0

InterruptedRun == Idle /\ outcome.status = "interrupted"

\* equal on every field other than uuid, event_time and session_id
SameState(a, b) == a.ehr_id = b.ehr_id /\ a.age = b.age

Max(S) == CHOOSE x \in S : \A y \in S : y <= x

\* the rows a step appends to changeable_user_properties
Appended == SubSeq(changeable_user_properties',
                   Len(changeable_user_properties) + 1,
                   Len(changeable_user_properties'))

\* C1: in every flush no candidate that equals, outside uuid, event_time and
\* session_id, the row last_change holds for its ehr_id when the candidate is
\* examined becomes an inserted row: each row a step inserts differs from
\* the row inserted before it for the same ehr_id in that step or, when it
\* is the first, from the cached last_change of that ehr_id.  So successive
\* candidates that differ only in session_id and event_time leave one row.
C1_ChangeDetectionSkip ==
    [][\A i \in DOMAIN Appended :
          LET c == Appended[i]
              earlier == {j \in 1..(i - 1) : Appended[j].ehr_id = c.ehr_id}
          IN IF earlier # {}
             THEN ~SameState(Appended[Max(earlier)], c)
             ELSE c.ehr_id \in DOMAIN last_change
                      => ~SameState(last_change[c.ehr_id], c)]_vars

\* C1 witness: a candidate went through a flush and left no row, after
\* another candidate had left one
C1_Witness ==
    /\ changeable_user_properties # <<>>
    /\ \E u \in DOMAIN submitted :
          /\ submitted[u] > 0
          /\ \A i \in DOMAIN changeable_user_properties :
                changeable_user_properties[i].uuid # u

\* every process_source call on the staging table so far used one start_date
SameStartDate == runs >= 2 => (prev.source_type = "tmp_table" /\ prev.start = start)

\* C2: across staging runs re-invoked with the same start_date, the
\* projections of a staging row are submitted to at most one flush.
C2_FlushedAtMostOnce ==
    (source_type = "tmp_table" /\ SameStartDate)
        => \A u \in DOMAIN submitted : submitted[u] <= 1

StagingRowOf(u) ==
    CHOOSE r \in Range(tmp_user_properties) : r.uuid = u

\* C3: a staging row is migrated only when a flush that held its projections
\* has returned: it was part of a flush and nothing of it is still pending,
\* also when a statement of a flush or the marking itself raises.
C3_MigratedOnlyAfterFlush ==
    \A r \in Range(tmp_user_properties) :
        r.migrated =>
            /\ submitted[r.uuid] >= 1
            /\ \A i \in DOMAIN pending_changeable :
                  pending_changeable[i].uuid # r.uuid
            /\ \A i \in DOMAIN pending_permanent :
                  pending_permanent[i].first_login_at # r.event_time

\* C3 witness: a run ended with the error of a flush whose second or later
\* statement raised, after an earlier flush of the run had returned: the rows
\* of the earlier flush are migrated, the rows of the failing one are not
C3_Witness ==
    /\ pc = "idle"
    /\ hist.failure # <<>>
    /\ hist.failure[1].statement >= 2
    /\ \E r \in Range(tmp_user_properties) : r.migrated
    /\ batch_uuids # <<>>
    /\ \A r \in Range(tmp_user_properties) :
          r.uuid \in Range(batch_uuids) => ~r.migrated

\* C4: when a staging row fails to transform, the rows of the day consumed
\* before it are migrated when the interruption is reported, and the failing
\* row and the rows after it are not.
C4_MarkedBeforeInterruption ==
    (InterruptedRun /\ source_type = "tmp_table") =>
        /\ \A j \in 1..pos : StagingRowOf(rows[j].uuid).migrated
        /\ \A j \in (pos + 1)..Len(rows) : ~StagingRowOf(rows[j].uuid).migrated

\* C5: a staging run that follows a completed staging run with the same
\* start_date processes nothing, inserts nothing and marks nothing.
C5_RerunIsNoOp ==
    (/\ runs >= 2
     /\ source_type = "tmp_table"
     /\ prev.source_type = "tmp_table"
     /\ prev.status = "completed"
     /\ prev.start = start) =>
        /\ processed_total = 0
        /\ hist.perm_inserts = 0
        /\ hist.chg_inserts = 0
        /\ hist.updates = 0
        /\ pc # "tmp_table"
        /\ Idle => (outcome.status = "completed" /\ outcome.processed = 0)

\* C5 witness: the first run processed rows and completed, the second run
\* with the same start_date has ended
C5_Witness ==
    /\ runs >= 2
    /\ Idle
    /\ source_type = "tmp_table"
    /\ prev.source_type = "tmp_table"
    /\ prev.status = "completed"
    /\ prev.processed > 0
    /\ prev.start = start

\* C6: permanent_user_properties holds at most one row per ehr_id.
C6_PermanentUnique ==
    \A i, j \in DOMAIN permanent_user_properties :
        permanent_user_properties[i].ehr_id = permanent_user_properties[j].ehr_id
            => i = j

\* C6 witness: two records of one user went through flushes and the table
\* holds that user's row
C6_Witness ==
    /\ permanent_user_properties # <<>>
    /\ \E u, v \in DOMAIN submitted :
          /\ u # v
          /\ submitted[u] > 0 /\ submitted[v] > 0
          /\ StagingRowOf(u).EHR_ID # None
          /\ StagingRowOf(u).EHR_ID = StagingRowOf(v).EHR_ID

\* C7: an archive run interrupted at the line at file position k (from 0)
\* reports failed_line = k and last_successful_line = k - 1, whatever
\* start_after it was started with.
C7_FailedLineIsFilePosition ==
    (InterruptedRun /\ source_type = "amplitude" /\ hist.failed # <<>>) =>
        /\ outcome.failed_line = hist.failed
        /\ outcome.last_successful_line = <<hist.failed[1] - 1>>

\* the clean lines of one ehr_id have non-decreasing / increasing event_time
NonDecreasingPerEhr ==
    \A i, j \in DOMAIN lines :
        (i < j /\ lines[i].json /\ lines[j].json
               /\ lines[i].EHR_ID = lines[j].EHR_ID)
            => lines[i].event_time <= lines[j].event_time

IncreasingPerEhr ==
    \A i, j \in DOMAIN lines :
        (i < j /\ lines[i].json /\ lines[j].json
               /\ lines[i].EHR_ID = lines[j].EHR_ID)
            => lines[i].event_time < lines[j].event_time

\* the states of the rows of `eid` with the greatest event_time in `stored`
LatestStates(stored, eid) ==
    {r.age : r \in
        {x \in Range(stored) :
            /\ x.ehr_id = eid
            /\ \A o \in Range(stored) :
                  o.ehr_id = eid => o.event_time <= x.event_time}}

\* the current archive run restarts, at or after the start of the run before
\* it and before the line that run failed at, and has read the object
Restart ==
    /\ runs >= 2
    /\ hist.read = "returned"
    /\ pc \in {"amplitude", "idle"}
    /\ source_type = "amplitude"
    /\ prev.source_type = "amplitude"
    /\ prev.status = "interrupted"
    /\ prev.failed # <<>>
    /\ prev.start <= start
    /\ start <= prev.failed[1] - 1

\* what C8 promises of a restart: it processes the lines from start_after
\* up to the failed line, adds no permanent row and leaves the state of the
\* latest changeable row of every ehr_id as it was
RestartIsSafe ==
    /\ Len(permanent_user_properties) = hist.perm0
    /\ \A e \in EhrValues :
          LatestStates(changeable_user_properties, e)
              = LatestStates(SubSeq(changeable_user_properties, 1, hist.chg0), e)
    /\ Idle => (/\ hist.failed = prev.failed
                /\ processed_total = prev.failed[1] - start)

FailingRecord == rows[pos + 1]

\* C9: when the transformer reports errors for a record the run ends there:
\* the buffers are empty and every record consumed before went through a
\* flush, the failing record left no row in either table, and the rows the
\* run inserted come from records before the failing one.
C9_InterruptedAtFailingRecord ==
    (/\ InterruptedRun
     /\ hist.failed # <<>>
     /\ source_type = "amplitude" => FailingRecord.json) =>
        /\ pending_permanent = <<>> /\ pending_changeable = <<>>
        /\ \A j \in 1..pos : submitted[rows[j].uuid] >= 1
        /\ submitted[FailingRecord.uuid] = 0
        /\ \A i \in DOMAIN changeable_user_properties :
              changeable_user_properties[i].uuid # FailingRecord.uuid
        /\ \A i \in DOMAIN permanent_user_properties :
              permanent_user_properties[i].first_login_at
                  # FailingRecord.event_time
        /\ \A i \in (hist.chg0 + 1)..Len(changeable_user_properties) :
              changeable_user_properties[i].uuid < FailingRecord.uuid
        /\ \A i \in (hist.perm0 + 1)..Len(permanent_user_properties) :
              permanent_user_properties[i].first_login_at
                  < FailingRecord.event_time

\* C9 witness: a record for which the transformer still built both
\* projections failed, after clean records had been flushed
C9_Witness ==
    /\ InterruptedRun
    /\ hist.failed # <<>>
    /\ source_type = "amplitude" => FailingRecord.json
    /\ FailingRecord.Age = BadInt
    /\ FailingRecord.EHR_ID # None
    /\ Len(changeable_user_properties) > hist.chg0

\* C10: an interrupted run is answered with HTTP 200 and the structured
\* interruption object.
C10_InterruptionAnswered200 ==
    InterruptedRun =>
        /\ http_response.status_code = 200
        /\ http_response.status = "interrupted"
        /\ http_response.body = <<outcome>>

\* the file positions (from 1) at or after start_after of lines that fail
FailingFrom(k) == {i \in (k + 1)..Len(lines) : Failing(lines[i])}

\* C11: the object of the model's store is always there to be read (lines is
\* its content), so an archive run never ends with a source-read failure or
\* a crash: it processes the lines from start_after (0 when none is given)
\* through the last one, flushes and ends completed, or is interrupted at
\* the first line that fails.
C11_ArchiveProcessesReadableObject ==
    (Idle /\ source_type = "amplitude") =>
        IF FailingFrom(start) = {}
        THEN /\ outcome.kind = "return"
             /\ start < Len(lines) => outcome.status = "completed"
             /\ outcome.processed = Max({0, Len(lines) - start})
             /\ pending_permanent = <<>> /\ pending_changeable = <<>>
        ELSE /\ outcome.status = "interrupted"
             /\ outcome.failed_line # <<>>

\* the records the current call consumed: the lines the archive loop went
\* past, the staging rows it marked migrated
Consumed ==
    IF source_type = "amplitude" THEN pos
    ELSE Cardinality(Migrated(tmp_user_properties)) - hist.migrated0

\* C12: a call that returns (no interruption, no error) returns status
\* completed, processed = the number of records it consumed, errors = 0 and
\* a last_successful_line field, also when start_after is at or past the
\* end of the file.
C12_ReturnsCompleted ==
    (Idle /\ outcome.kind = "return") =>
        /\ outcome.status = "completed"
        /\ outcome.processed = Consumed
        /\ outcome.errors = 0
        /\ Len(outcome.last_successful_line) <= 1

\* an insert_batch call, with the statements it has issued so far
InsertBatch == repo.op = "insert_batch"

\* C13: every insert statement insert_batch issues has rows x columns
\* written per row <= max_params_per_query x safety_factor and
\* rows <= max_rows_per_insert, for any table and configuration.
C13_BatchCeiling ==
    InsertBatch =>
        \A k \in DOMAIN repo.statements :
            /\ Len(repo.statements[k]) * repo.columns * SafetyDen
                   <= settings_db.max_params_per_query * settings_db.safety_num
            /\ Len(repo.statements[k]) <= configured_max

RECURSIVE Concatenated(_)
Concatenated(chunks) ==
    IF chunks = <<>> THEN <<>> ELSE Head(chunks) \o Concatenated(Tail(chunks))

RECURSIVE ReturnedBy(_)
ReturnedBy(chunks) ==
    IF chunks = <<>> THEN <<>>
    ELSE Returning(Head(chunks)) \o ReturnedBy(Tail(chunks))

\* C14: insert_batch on n rows with r >= 1 rows per statement issues
\* ceil(n / r) statements; the chunks, each of 1..r rows, put end to end are
\* the input rows; the ids returned are the chunks' returned values in chunk
\* order and the batch count is the number of statements.
C14_Chunking ==
    (/\ InsertBatch
     /\ repo.status = "returned"
     /\ max_rows_for_table(repo.table) >= 1) =>
        LET r == max_rows_for_table(repo.table)
            n == Len(repo.rows)
        IN /\ Len(repo.statements) = (n + r - 1) \div r
           /\ Concatenated(repo.statements) = repo.rows
           /\ \A k \in DOMAIN repo.statements :
                 Len(repo.statements[k]) \in 1..r
           /\ repo.ids = ReturnedBy(repo.statements)
           /\ repo.batches = Len(repo.statements)

\* 40 rows for a 13-column table with max_params_per_query = 100 and
\* safety_factor 1.0 went out in 6 statements, one row returning nothing
C14_Witness ==
    /\ InsertBatch
    /\ repo.status = "returned"
    /\ repo.table = "events_part"
    /\ Len(repo.rows) = 40
    /\ settings_db.max_params_per_query = 100
    /\ settings_db.safety_num = SafetyDen
    /\ repo.batches = 6
    /\ Len(repo.ids) = 39

\* C15: every repository operation gives back each connection it borrowed
\* on every way out, a raising statement included: between operations no
\* connection is borrowed, and an operation holds at most one at a time.
C15_ConnectionsReturned ==
    /\ repo.status # "running" => borrowed = 0
    /\ borrowed = repo.conn
    /\ borrowed <= 1

\* the third statement of an insert_batch raised, or the statement of an
\* insert_one after its query was formatted
C15_Witness ==
    /\ repo.status = "raised"
    /\ repo.error = "statement"
    /\ \/ repo.op = "insert_batch" /\ Len(repo.statements) = 3
       \/ repo.op = "insert_one" /\ repo.steps = <<"statement">>
    /\ borrowed = 0

\* --------------------------------------------------------------- C16
\* what the nested bag of the call holds
NestedBag(call) ==
    safe_dict(get(call.raw_record,
                  IF call.source_type = "amplitude" THEN "user_properties"
                  ELSE "user_properties_json"))

\* the uuid and the event_time of the record are ones the transformer reads
IdentityAccepted(raw_record) ==
    /\ \/ raw_record.uuid.type = "UUID"
       \/ raw_record.uuid.type = "str" /\ raw_record.uuid.text \in UuidTexts
    /\ \/ raw_record.event_time.type = "datetime"
       \/ /\ raw_record.event_time.type = "str"
          /\ fromisoformat(raw_record.event_time.text) # <<>>

\* the result is (none, none, errors), errors being one Unknown key entry
\* per key of U with the key and its value, and no mapping was evaluated
UnknownKeysReported(result, U, bag) ==
    /\ result.status = "returned"
    /\ result.permanent = <<>>
    /\ result.changeable = <<>>
    /\ result.evaluated = <<>>
    /\ Len(result.errors) = Cardinality(U)
    /\ \A key \in U :
          \E i \in DOMAIN result.errors :
             result.errors[i] = ErrorEntry(key, bag[key], "Unknown key")

\* C16 as stated: every record whose nested bag holds a key outside the
\* known keys is answered (none, none, errors) with exactly one Unknown key
\* entry per unknown key, and no mapping is evaluated.
C16_UnknownKeyRejection ==
    \A k \in DOMAIN transformed :
        unknown_keys(transform_call) # {} =>
            UnknownKeysReported(transformed[k], unknown_keys(transform_call),
                                NestedBag(transform_call))

\* C16 amended: the same, for the records whose uuid and event_time the
\* transformer accepts; a record rejected on its uuid or event_time is
\* answered with that one error before the nested bag is looked at.
C16_UnknownKeyRejectionAfterIdentity ==
    \A k \in DOMAIN transformed :
        LET U == unknown_keys(transform_call)
        IN /\ (U # {} /\ IdentityAccepted(transform_call.raw_record)) =>
                 UnknownKeysReported(transformed[k], U, NestedBag(transform_call))
           /\ (U # {} /\ ~IdentityAccepted(transform_call.raw_record)) =>
                 /\ transformed[k].status = "returned"
                 /\ transformed[k].permanent = <<>>
                 /\ transformed[k].changeable = <<>>
                 /\ transformed[k].evaluated = <<>>
                 /\ Len(transformed[k].errors) = 1
                 /\ transformed[k].errors[1].key \in {"uuid", "event_time"}

C16_Witness ==
    /\ transformed # <<>>
    /\ IdentityAccepted(transform_call.raw_record)
    /\ Cardinality(unknown_keys(transform_call)) = 2
    /\ "Gender" \in DOMAIN NestedBag(transform_call)
    /\ Len(transformed[1].errors) = 2

\* --------------------------------------------------------------- C17
\* the nested EHR_ID is missing or one of "N/A", "no ehr", "no_ehr"
EhrIdIsSentinel(call) ==
    get(NestedBag(call), "EHR_ID") \in {Absent, Str("N/A"), Str("no ehr"), Str("no_ehr")}

NoErrorOn(result, key) == \A i \in DOMAIN result.errors : result.errors[i].key # key

\* C17 as stated: a record whose nested EHR_ID is missing or a sentinel
\* gets no EHR_ID error, Permanent = none and a Changeable whose ehr_id is
\* null.
C17_EhrIdSentinel ==
    \A k \in DOMAIN transformed :
        EhrIdIsSentinel(transform_call) =>
            /\ transformed[k].status = "returned"
            /\ NoErrorOn(transformed[k], "EHR_ID")
            /\ transformed[k].permanent = <<>>
            /\ transformed[k].changeable # <<>>
            /\ transformed[k].changeable[1].ehr_id = Absent

\* --------------------------------------------------------------- C18
\* C18: two calls of transform_single_record on the same raw record,
\* catalog and source tag return equal triples, the errors in the same
\* order.
C18_Deterministic ==
    \A j, k \in DOMAIN transformed :
        /\ transformed[j].permanent = transformed[k].permanent
        /\ transformed[j].changeable = transformed[k].changeable
        /\ transformed[j].errors = transformed[k].errors

\* --------------------------------------------------------------- C19
\* C19: whatever the types of the values of the raw record, the call returns
\* a (Permanent?, Changeable?, errors) triple; no exception leaves the
\* transformer.
C19_NoEscapingException ==
    \A k \in DOMAIN transformed : transformed[k].status = "returned"

\* --------------------------------------------------------------- C20
\* where the record with this uuid stands among those processed by the call
PlaceOf(uuid) == CHOOSE i \in DOMAIN hist.order : hist.order[i].uuid = uuid

\* the rows the current call added to a warehouse table, in stored order
AddedPermanent ==
    SubSeq(permanent_user_properties, hist.perm0 + 1, Len(permanent_user_properties))

AddedChangeable ==
    SubSeq(changeable_user_properties, hist.chg0 + 1,
           Len(changeable_user_properties))

\* C20: within one call the records are processed in source order. Archive:
\* the file indices of the processed lines increase strictly, from
\* start_after. Staging: the days are visited in ascending order, each row
\* under its own day, and the rows of a day by non-decreasing event_time.
\* Each warehouse table receives its rows in the order they were processed.
C20_SourceOrder ==
    LET order == hist.order
    IN /\ source_type = "amplitude" =>
             /\ order # <<>> => order[1].key = start
             /\ \A i, j \in DOMAIN order : i < j => order[i].key < order[j].key
       /\ source_type = "tmp_table" =>
             /\ \A i \in DOMAIN order :
                   /\ order[i].day = DayOf(order[i].event_time)
                   /\ order[i].day \in start..current_day
             /\ \A i, j \in DOMAIN order :
                   i < j => /\ order[i].day <= order[j].day
                            /\ order[i].event_time <= order[j].event_time
       /\ \A i \in DOMAIN AddedChangeable :
             \E k \in DOMAIN order : order[k].uuid = AddedChangeable[i].uuid
       /\ \A i, j \in DOMAIN AddedChangeable :
             i < j => PlaceOf(AddedChangeable[i].uuid)
                          < PlaceOf(AddedChangeable[j].uuid)
       /\ \A i \in DOMAIN AddedPermanent :
             \E k \in DOMAIN order :
                order[k].event_time = AddedPermanent[i].first_login_at
       /\ \A i, j \in DOMAIN AddedPermanent :
             i < j => AddedPermanent[i].first_login_at
                          < AddedPermanent[j].first_login_at

\* a staging call over rows stored out of time order has processed a row of
\* one day and two rows of the next, and has inserted two changeable rows
C20_Witness ==
    /\ source_type = "tmp_table"
    /\ Len(hist.order) >= 3
    /\ hist.order[1].day < hist.order[2].day
    /\ hist.order[2].day = hist.order[3].day
    /\ \E i, j \in DOMAIN tmp_user_properties :
          /\ i < j
          /\ tmp_user_properties[i].event_time > tmp_user_properties[j].event_time
    /\ Len(AddedChangeable) >= 2

\* --------------------------------------------------------------- C21
\* C21: a row of permanent_user_properties is never updated or deleted:
\* every step leaves each stored row, its first_login_at included, as it
\* was, whatever records with the same ehr_id the later flushes carry.
C21_PermanentRowsFrozen ==
    [][/\ Len(permanent_user_properties') >= Len(permanent_user_properties)
       /\ \A i \in DOMAIN permanent_user_properties :
             permanent_user_properties'[i] = permanent_user_properties[i]]_vars

\* a later record of an ehr_id that has its permanent row went through a
\* flush: its changeable row is stored, with a time after first_login_at
C21_Witness ==
    \E i \in DOMAIN permanent_user_properties :
        \E j \in DOMAIN changeable_user_properties :
            /\ changeable_user_properties[j].ehr_id
                   = permanent_user_properties[i].ehr_id
            /\ changeable_user_properties[j].event_time
                   > permanent_user_properties[i].first_login_at

\* --------------------------------------------------------------- C22
\* the staging rows whose projections the step hands to a flush, and the
\* changeable candidate of such a row
FlushedNow == {u \in DOMAIN submitted : submitted'[u] > submitted[u]}

Candidate(u) == transform_single_record(StagingRowOf(u)).changeable[1]

NullAppended == SelectSeq(Appended, LAMBDA r : r.ehr_id = None)

\* what a null candidate is compared with: the null row this flush
\* inserted last before it or, when there is none, the cached row
NullReference(c) ==
    LET before == {j \in DOMAIN NullAppended :
                      NullAppended[j].event_time < c.event_time}
    IN IF before # {} THEN <<NullAppended[Max(before)]>>
       ELSE IF None \in DOMAIN last_change THEN <<last_change[None]>>
       ELSE <<>>

\* C22: the candidates with ehr_id = null form one partition. The preload
\* caches under null the latest stored row with ehr_id IS NULL; a flush
\* inserts a null candidate exactly when it differs, outside uuid,
\* event_time and session_id, from the row it is compared with, and the
\* last row it inserts replaces last_change[null].
C22_NullPartition ==
    [][/\ runs' = runs + 1 =>
             /\ None \in DOMAIN last_change'
                    <=> \E i \in DOMAIN changeable_user_properties :
                           changeable_user_properties[i].ehr_id = None
             /\ None \in DOMAIN last_change' =>
                    last_change'[None] \in LatestRows(changeable_user_properties, None)
       /\ \A u \in FlushedNow :
             Candidate(u).ehr_id = None =>
                ((\E j \in DOMAIN NullAppended : NullAppended[j].uuid = u)
                    <=> \/ NullReference(Candidate(u)) = <<>>
                        \/ ~SameState(NullReference(Candidate(u))[1], Candidate(u)))
       /\ (runs' = runs /\ NullAppended # <<>>) =>
             last_change'[None] = NullAppended[Len(NullAppended)]
       /\ (runs' = runs /\ NullAppended = <<>> /\ None \in DOMAIN last_change) =>
             last_change'[None] = last_change[None]]_vars

\* two null-ehr_id rows went through a flush and left a single history row
C22_Witness ==
    /\ Cardinality({u \in DOMAIN submitted :
                       /\ submitted[u] > 0
                       /\ StagingRowOf(u).EHR_ID = None}) >= 2
    /\ Cardinality({i \in DOMAIN changeable_user_properties :
                       changeable_user_properties[i].ehr_id = None}) = 1
    /\ pending_changeable = <<>>
    /\ None \in DOMAIN last_change

\* --------------------------------------------------------------- C23
\* C23: with two calls running at once, under every interleaving of their
\* statements, permanent_user_properties holds at most one row per ehr_id
\* (exactly one once a call has flushed a record of it), no call fails
\* over a row (a call ends interrupted only when its object cannot be read,
\* before it has looked at a record), and a step of one call leaves the
\* buffers and caches of the other alone.
C23_ConcurrentPermanent ==
    /\ [](/\ \A i, j \in DOMAIN permanent_user_properties :
                permanent_user_properties[i].ehr_id
                    = permanent_user_properties[j].ehr_id => i = j
          /\ \A w \in DOMAIN workers :
                /\ workers[w].status \in {"none", "completed", "interrupted"}
                /\ workers[w].status = "interrupted" =>
                      /\ get_object_raises
                      /\ workers[w].pos = 0
                      /\ workers[w].inserted = {}
                /\ \A eid \in workers[w].existing_permanent :
                      \E i \in DOMAIN permanent_user_properties :
                         permanent_user_properties[i].ehr_id = eid
                /\ workers[w].status = "completed" =>
                      \A k \in DOMAIN workers[w].rows :
                         workers[w].rows[k].EHR_ID # None =>
                            \E i \in DOMAIN permanent_user_properties :
                               permanent_user_properties[i].ehr_id
                                   = workers[w].rows[k].EHR_ID)
    /\ [][\A w, v \in DOMAIN workers :
             (w # v /\ workers'[w] # workers[w]) => workers'[v] = workers[v]]_vars

\* both calls are done, both flushed a record of the same ehr_id, and the
\* insert of one met the row of the other: it returned no id, so the ehr_id
\* never entered that call's existing_permanent
C23_Witness ==
    /\ DOMAIN workers = Workers
    /\ \A w \in Workers :
          /\ workers[w].status = "completed"
          /\ workers[w].rows[1].EHR_ID = 1
    /\ \E w \in Workers : 1 \notin workers[w].existing_permanent
    /\ Len(permanent_user_properties) = 1

\* --------------------------------------------------------------- C24
\* C24: with two calls at once a call still inserts only what differs from
\* its own last_change, and that is all it compares with: the rows a flush
\* sets out to insert each differ, outside uuid, event_time and session_id,
\* from the candidate of the ehr_id before it or else from the row its own
\* cache holds; when such a row equals the latest stored row of its ehr_id,
\* the cache did not hold that row as the latest; and each INSERT of the
\* flush stores its chunk whatever the table holds by then. The witness is
\* the interleaving in which an equal row is stored.
C24_ComparedWithOwnCache ==
    [][\A w \in DOMAIN workers :
          /\ (workers[w].pc # "flush_changeable"
                 /\ workers'[w].pc = "flush_changeable") =>
                LET to_insert == Concatenated(workers'[w].chunks)
                    cached == workers[w].last_change
                IN \A i \in DOMAIN to_insert :
                      LET c == to_insert[i]
                          earlier == {j \in 1..(i - 1) :
                                         to_insert[j].ehr_id = c.ehr_id}
                      IN /\ IF earlier # {}
                            THEN ~SameState(to_insert[Max(earlier)], c)
                            ELSE c.ehr_id \in DOMAIN cached =>
                                    ~SameState(cached[c.ehr_id], c)
                         /\ (earlier = {}
                                /\ LatestStates(changeable_user_properties,
                                                c.ehr_id) = {c.age}) =>
                               \/ c.ehr_id \notin DOMAIN cached
                               \/ cached[c.ehr_id]
                                      \notin LatestRows(changeable_user_properties,
                                                        c.ehr_id)
          /\ (workers[w].pc = "flush_changeable" /\ workers'[w] # workers[w]) =>
                Appended = Head(workers[w].chunks)]_vars

\* a call has inserted a row equal, outside uuid, event_time and session_id,
\* to the row the other call had stored before it as the latest of the ehr_id
C24_Witness ==
    \E v, w \in DOMAIN workers :
        \E i \in workers[v].inserted : \E j \in workers[w].inserted :
            /\ v # w
            /\ i < j
            /\ SameState(changeable_user_properties[i], changeable_user_properties[j])
            /\ changeable_user_properties[i]
                   \in LatestRows(SubSeq(changeable_user_properties, 1, j - 1),
                                  changeable_user_properties[i].ehr_id)

\* --------------------------------------------------------------- C25
\* the rows a step appends to permanent_user_properties
AppendedPermanent ==
    SubSeq(permanent_user_properties', Len(permanent_user_properties) + 1,
           Len(permanent_user_properties'))

IsPrefix(a, b) == Len(a) <= Len(b) /\ SubSeq(b, 1, Len(a)) = a

\* C25: when the k-th statement of a flush fails the error reaches the
\* caller and the flush stops there: what the step stores is what the k - 1
\* statements before it stored, a prefix of what the whole flush would have
\* stored; no changeable row is stored unless every permanent statement
\* returned; the staging table is not touched, so the rows of the batch stay
\* migrated = false.
C25_FlushAborted ==
    [][(pc = "tmp_table" /\ hist'.failure # <<>> /\ hist.failure = <<>>) =>
          LET failure == hist'.failure[1]
              whole == flush(failure.pp, failure.pch)
              k == failure.statement
          IN /\ outcome'.kind = "HTTPException"
             /\ http_response'.status_code = 500
             /\ pc' = "idle"
             /\ IsPrefix(permanent_user_properties', whole.permanent)
             /\ IsPrefix(changeable_user_properties', whole.changeable)
             /\ IF k <= whole.perm_inserts
                THEN /\ Appended = <<>>
                     /\ Len(AppendedPermanent)
                            <= (k - 1) * max_rows_for_table("permanent_user_properties")
                ELSE /\ permanent_user_properties' = whole.permanent
                     /\ Len(Appended)
                            = (k - 1 - whole.perm_inserts)
                                  * max_rows_for_table("changeable_user_properties")
                     /\ changeable_user_properties' # whole.changeable
             /\ tmp_user_properties' = tmp_user_properties
             /\ \A i \in DOMAIN failure.pch :
                   ~StagingRowOf(failure.pch[i].uuid).migrated]_vars

\* the second changeable statement of a flush failed after the permanent
\* insert and the first changeable statement had stored their rows
C25_Witness ==
    /\ Idle
    /\ outcome.kind = "HTTPException"
    /\ hist.failure # <<>>
    /\ hist.failure[1].statement = 3
    /\ Len(permanent_user_properties) = hist.perm0 + 1
    /\ Len(changeable_user_properties) = hist.chg0 + 1
    /\ \A i \in DOMAIN tmp_user_properties : ~tmp_user_properties[i].migrated

\* --------------------------------------------------------------- C26
\* C26: an archive run whose read of the object raised is reported as
\* interrupted with the key of the object as file_key; it transformed no
\* record, counts processed = 0, and issued no insert and no staging update.
C26_UnreadableObject ==
    (Idle /\ hist.read = "raised") =>
        /\ outcome.status = "interrupted"
        /\ outcome.file_key = <<FileKey>>
        /\ outcome.processed = 0
        /\ outcome.last_successful_line = <<>>
        /\ outcome.failed_line = <<>>
        /\ hist.order = <<>>
        /\ hist.perm_inserts = 0 /\ hist.chg_inserts = 0 /\ hist.updates = 0
        /\ Len(permanent_user_properties) = hist.perm0
        /\ Len(changeable_user_properties) = hist.chg0
        /\ pending_permanent = <<>> /\ pending_changeable = <<>>

\* the read raised in a run made after one that had processed records
C26_Witness ==
    /\ Idle
    /\ hist.read = "raised"
    /\ runs = 2
    /\ prev.processed > 0
    /\ outcome.file_key = <<FileKey>>

\* the entry the m-th name of day d's archive is read from
OpenedAt(d, m) ==
    open(reader.provider[d].members, reader.provider[d].members[m].name)

\* the day's export answers with a zip whose every .gz name decompresses
HealthyDay(d) ==
    /\ reader.provider[d].status = "ok"
    /\ \A m \in DOMAIN reader.provider[d].members :
          IsGz(reader.provider[d].members[m]) =>
              reader.provider[d].members[OpenedAt(d, m)].decompresses

RECURSIVE LinesOfMembers(_, _)
\* the non-blank lines read under names 1..m of day d, name by name
LinesOfMembers(d, m) ==
    IF m = 0 THEN <<>>
    ELSE LinesOfMembers(d, m - 1)
         \o (IF IsGz(reader.provider[d].members[m])
             THEN YieldedFrom(d, OpenedAt(d, m),
                              reader.provider[d].members[OpenedAt(d, m)])
             ELSE <<>>)

LinesOfDay(d) == LinesOfMembers(d, Len(reader.provider[d].members))

YieldedOfDay(d) == SelectSeq(reader.yielded, LAMBDA l : l.day = d)

\* C27: iter_lines(start, end) requests each day of the inclusive range once,
\* in ascending order, and has yielded every line of a day, one at a time
\* and in the order of the archive, before it requests the next; a day whose
\* request or decompression fails ends the sequence with the error, with no
\* later day requested and no later line yielded; the only other error the
\* generator raises by itself is the one of stepping past the last day a
\* datetime holds, after every line of that day; a generator the consumer
\* closes at a yield, or whose task is cancelled while a day's request is
\* awaited (then with no line of that day yielded), has requested and
\* yielded a prefix of this and does nothing more; for start > end nothing
\* is requested and nothing is yielded.
C27_AscendingDays ==
    /\ [](reader.phase # "none" =>
            /\ \A i \in DOMAIN reader.requested :
                  /\ reader.requested[i] = reader.start + i - 1
                  /\ reader.requested[i] <= reader.end
            /\ \A i, j \in DOMAIN reader.yielded :
                  i < j => reader.yielded[i].day <= reader.yielded[j].day
            /\ \A i \in DOMAIN reader.yielded :
                  \E k \in DOMAIN reader.requested :
                     reader.requested[k] = reader.yielded[i].day
            /\ \A i \in DOMAIN reader.requested :
                  (i < Len(reader.requested) \/ reader.phase \in {"loop", "ended"}) =>
                      /\ HealthyDay(reader.requested[i])
                      /\ YieldedOfDay(reader.requested[i])
                            = LinesOfDay(reader.requested[i])
            /\ \A i \in DOMAIN reader.requested :
                  IsPrefix(YieldedOfDay(reader.requested[i]),
                           LinesOfDay(reader.requested[i]))
            /\ reader.phase = "raised" =>
                  /\ reader.requested # <<>>
                  /\ LET last == reader.requested[Len(reader.requested)]
                     IN \/ ~HealthyDay(last)
                        \/ /\ last = reader.date_max
                           /\ YieldedOfDay(last) = LinesOfDay(last)
            /\ reader.phase \in {"export_day", "cancelled"} =>
                  /\ reader.requested # <<>>
                  /\ reader.requested[Len(reader.requested)] = reader.current
                  /\ YieldedOfDay(reader.current) = <<>>
            /\ reader.phase = "ended" =>
                  Len(reader.requested)
                     = (IF reader.start > reader.end THEN 0
                        ELSE reader.end - reader.start + 1)
            /\ reader.start > reader.end =>
                  reader.requested = <<>> /\ reader.yielded = <<>>)
    /\ [][/\ reader.phase \in {"raised", "closed", "cancelled"} =>
                reader'.requested = reader.requested
                /\ reader'.yielded = reader.yielded
           /\ Len(reader'.yielded) <= Len(reader.yielded) + 1]_vars

\* the second day of a range fails in its second member, after lines of both
\* days were yielded
C27_Witness ==
    /\ reader.phase = "raised"
    /\ Len(reader.requested) = 2
    /\ YieldedOfDay(reader.requested[1]) # <<>>
    /\ YieldedOfDay(reader.requested[2]) # <<>>
    /\ reader.end > reader.requested[2]

\* --------------------------------------------------------------- C28
\* single calls of the transformer and whole runs of the orchestrator
InitEhrId == InitTransformer \/ InitArchive \/ InitStaging

\* a call of the transformer where a record was handed to it, the steps of
\* a run elsewhere
NextEhrId ==
    \/ transform_call # NoTransform /\ NextTransformer
    \/ transform_call = NoTransform /\ Next

SpecEhrId == InitEhrId /\ [][NextEhrId]_vars

\* the nested EHR_ID is there, is no sentinel and int() does not take it
EhrIdUnparseable(call) ==
    LET v == get(NestedBag(call), "EHR_ID")
    IN /\ v \notin {Absent, Str("N/A"), Str("no ehr"), Str("no_ehr")}
       /\ v.type # "int"
       /\ ~(v.type = "str" /\ v.text \in IntegerTexts)

ErrorsOn(result, key) == {i \in DOMAIN result.errors : result.errors[i].key = key}

\* the records of the source of a run
SourceRecords == Range(lines) \cup Range(tmp_user_properties)

\* nothing of the record went into a flush or stands in the warehouse
NothingPersisted(r) ==
    /\ submitted[r.uuid] = 0
    /\ \A i \in DOMAIN changeable_user_properties :
          changeable_user_properties[i].uuid # r.uuid

\* C28 as stated: a record whose nested EHR_ID is present, no sentinel and
\* no integer gets one EHR_ID error, Permanent = none and a Changeable whose
\* ehr_id is null; its error list is not empty and the orchestrator persists
\* nothing of it.
C28_EhrIdUnparseable ==
    /\ \A k \in DOMAIN transformed :
          EhrIdUnparseable(transform_call) =>
              /\ transformed[k].status = "returned"
              /\ Cardinality(ErrorsOn(transformed[k], "EHR_ID")) = 1
              /\ transformed[k].permanent = <<>>
              /\ transformed[k].changeable # <<>>
              /\ transformed[k].changeable[1].ehr_id = Absent
              /\ transformed[k].errors # <<>>
    /\ \A r \in SourceRecords : r.EHR_ID = BadInt => NothingPersisted(r)

\* --------------------------------------------------------------- C29
\* the uuids of the records the current call transformed without error
ProcessedUuids == {hist.order[i].uuid : i \in DOMAIN hist.order}

\* C29: when a run ends completed, or interrupted by an invalid JSON line or
\* a transformation error, both pending buffers are empty and every record
\* the run transformed without error before that point was part of a flush
\* of the run (and no other record was).
C29_FlushedBeforeEnd ==
    (/\ Idle
     /\ outcome.status \in {"completed", "interrupted"}
     /\ hist.read # "raised") =>
        /\ pending_permanent = <<>>
        /\ pending_changeable = <<>>
        /\ hist.flushed = ProcessedUuids
        /\ \A u \in ProcessedUuids : submitted[u] >= 1

\* a run interrupted at its third record with a batch size above the two
\* clean records before it: only the flush before the interruption stored them
C29_Witness ==
    /\ InterruptedRun
    /\ hist.failed # <<>>
    /\ batch_size > 1
    /\ runs = 1
    /\ Cardinality(ProcessedUuids) = 2
    /\ hist.flushed = ProcessedUuids
    /\ hist.chg_inserts = 1

\* --------------------------------------------------------------- C30
\* C30: with batch_size >= 1 neither pending buffer ever holds more than
\* batch_size rows, the moment between the appends of a record and the size
\* check included, and after each completed per-record step both hold fewer
\* than batch_size rows.
C30_BuffersCapped ==
    batch_size >= 1 =>
        /\ hist.peak <= batch_size
        /\ Len(pending_permanent) <= batch_size
        /\ Len(pending_changeable) <= batch_size
        /\ Len(pending_permanent) < batch_size
        /\ Len(pending_changeable) < batch_size

\* a buffer was filled to batch_size = 2 by the second record of a run and
\* flushed, and the third record waits in it
C30_Witness ==
    /\ batch_size = 2
    /\ pc \in {"amplitude", "tmp_table"}
    /\ hist.peak = batch_size
    /\ Len(pending_changeable) = 1
    /\ Len(hist.order) = 3

\* --------------------------------------------------------------- C31
\* C31: in every flush no permanent row whose ehr_id is in existing_permanent
\* is handed to the insert, at most one insert_batch call is made for
\* permanent_user_properties, and afterwards existing_permanent is what it
\* was plus exactly the ehr_ids the insert returned; with a single worker
\* every ehr_id of pending_permanent is in existing_permanent after the
\* flush.
C31_PermanentFlush ==
    \A i \in DOMAIN hist.permanent_flush :
        LET F == hist.permanent_flush[i]
        IN /\ \A j \in DOMAIN F.to_insert : F.to_insert[j].ehr_id \notin F.before
           /\ F.calls <= 1
           /\ F.calls = 0 => F.to_insert = <<>> /\ F.inserted_ids = <<>>
           /\ F.after = F.before \cup Range(F.inserted_ids)
           /\ existing_permanent = F.after
           /\ \A j \in DOMAIN F.pending : F.pending[j].ehr_id \in F.after
           /\ \A j \in DOMAIN F.pending :
                 \E k \in DOMAIN permanent_user_properties :
                    permanent_user_properties[k].ehr_id = F.pending[j].ehr_id

\* a flush of two pending rows of one new ehr_id: both were handed to the
\* insert, which returned the id once
C31_Witness ==
    /\ hist.permanent_flush # <<>>
    /\ Len(hist.permanent_flush[1].pending) = 2
    /\ Len(hist.permanent_flush[1].to_insert) = 2
    /\ Len(hist.permanent_flush[1].inserted_ids) = 1
    /\ hist.permanent_flush[1].before = {}

\* --------------------------------------------------------------- C32
\* the rows of the staging table the query of day d selects
Unmigrated(stored, d) ==
    {r \in Range(stored) : ~r.migrated /\ DayOf(r.event_time) = d}

StagingRun == source_type = "tmp_table" /\ runs > 0

\* C32: a staging run queries the one-day windows start_date, start_date + 1,
\* ... in turn, each query selecting the rows of the window with migrated =
\* false and no other; every window before the last one queried held rows,
\* and a run that returns completed ended on a window without unmigrated
\* rows, whatever the later days hold.
C32_DayWindows ==
    /\ [](StagingRun =>
            /\ \A i \in DOMAIN hist.windows : hist.windows[i] = start + i - 1
            /\ \A i \in DOMAIN hist.order :
                  \E k \in DOMAIN hist.windows :
                     hist.windows[k] = hist.order[i].day
            /\ \A k \in 1..(Len(hist.windows) - 1) :
                  \E i \in DOMAIN hist.order : hist.order[i].day = hist.windows[k]
            /\ pc = "tmp_table" =>
                  /\ hist.windows # <<>>
                  /\ hist.windows[Len(hist.windows)] = current_day
                  /\ rows # <<>>
                  /\ \A i \in DOMAIN rows :
                        ~rows[i].migrated /\ DayOf(rows[i].event_time) = current_day
            /\ (Idle /\ outcome.status = "completed") =>
                  /\ hist.windows # <<>>
                  /\ Unmigrated(tmp_user_properties,
                                hist.windows[Len(hist.windows)]) = {}
                  /\ \A i \in DOMAIN hist.order :
                        hist.order[i].day < hist.windows[Len(hist.windows)])
    /\ [][(StagingRun /\ Len(hist'.windows) = Len(hist.windows) + 1) =>
             Range(rows') = Unmigrated(tmp_user_properties, current_day)]_vars

\* a run processed day 0, found day 1 without unmigrated rows and returned
\* completed, an unmigrated row standing on a later day
C32_Witness ==
    /\ StagingRun
    /\ Idle
    /\ outcome.status = "completed"
    /\ Len(hist.windows) = 2
    /\ hist.order # <<>>
    /\ \E r \in Range(tmp_user_properties) :
          ~r.migrated /\ DayOf(r.event_time) > hist.windows[2]

\* --------------------------------------------------------------- C33
\* Staging runs from any start_date, the last day a datetime holds included,
\* with the warehouse statements free to fail. The body of process_source is
\* sequential code: a step that is enabled is taken.
NextTermination == NextWarehouseError \/ StagingStart(datetime_max)

\* Weak fairness of the steps of the loop over the day's rows, written out:
\* WF_vars(A) is []<>~ENABLED <<A>>_vars \/ []<><<A>>_vars, and for
\* A = StagingRow \/ StagingDayEnd \/ StagingFlushFails a step is enabled
\* exactly when pc = "tmp_table" (pos < Len(rows) or pos = Len(rows)), every
\* step taken there being one of A.
RowLoopFair == []<>(pc # "tmp_table") \/ []<><<pc = "tmp_table">>_vars

SpecTermination ==
    /\ InitStaging
    /\ [][NextTermination]_vars
    /\ WF_vars(StagingSelect)
    /\ RowLoopFair

\* C33: over a finite staging table a staging run ends, from any start_date:
\* it returns completed or reports an interruption or an error, having
\* queried no more windows than the table has rows, plus the empty one it
\* stops at.
C33_StagingTerminates ==
    /\ [](StagingRun => Len(hist.windows) <= Len(tmp_user_properties) + 1)
    /\ (pc # "idle") ~>
           (pc = "idle" /\ outcome.status \in {"completed", "interrupted", "error"})

\* a run ended after three windows
C33_Witness ==
    /\ StagingRun
    /\ Idle
    /\ outcome.status = "completed"
    /\ Len(hist.windows) = 3
    /\ Len(hist.order) = 2

\* --------------------------------------------------------------- C34
LatestCalled == repo.op = "get_latest_changeable_for_ehrs"

\* the rows the statement `query` of the call read: the table as it stood
\* when the statement ran (rows are only ever added), nothing before it ran
SeenBy(query) ==
    UNION {Range(SubSeq(changeable_user_properties, 1, repo.statements[i].seen)) :
              i \in {j \in DOMAIN repo.statements :
                        repo.statements[j].query = query}}

\* C34: get_latest_changeable_for_ehrs(ids) returns a mapping keyed by ids
\* only: a non-null id maps, exactly when it has history rows, to a row of
\* that ehr_id with the greatest event_time; the key null is there exactly
\* when ids holds null and a row with a null ehr_id is stored, and maps to
\* such a row with the greatest event_time; an empty list gives the empty
\* mapping and no query. The rows are those of the table as the statement
\* that reads them finds it: the ranked statement for the non-null ids, the
\* IS NULL statement for null, at most one of each, in that order.
C34_LatestPerEhr ==
    LatestCalled =>
        LET ids == Range(repo.ids)
            Newest(k, stored) ==
                /\ last_change[k] \in stored
                /\ last_change[k].ehr_id = k
                /\ \A r \in stored :
                      r.ehr_id = k => r.event_time <= last_change[k].event_time
            issued == [i \in DOMAIN repo.statements |-> repo.statements[i].query]
        IN /\ DOMAIN last_change \subseteq ids
           /\ \A k \in ids \ {None} :
                 k \in DOMAIN last_change <=>
                    \E r \in SeenBy("ranked") : r.ehr_id = k
           /\ \A k \in DOMAIN last_change \ {None} :
                 Newest(k, SeenBy("ranked"))
           /\ None \in DOMAIN last_change <=>
                 (None \in ids /\ \E r \in SeenBy("ehr_id IS NULL") : r.ehr_id = None)
           /\ None \in DOMAIN last_change => Newest(None, SeenBy("ehr_id IS NULL"))
           /\ repo.ids = <<>> =>
                 /\ DOMAIN last_change = {}
                 /\ repo.statements = <<>>
                 /\ repo.status = "returned"
           /\ IsPrefix(issued, latest_queries(repo.ids))
           /\ repo.status = "returned" <=> issued = latest_queries(repo.ids)
           /\ (repo.status = "returned"
                 /\ \A i \in DOMAIN repo.statements :
                       repo.statements[i].seen = Len(changeable_user_properties))
                 => \A k \in ids :
                       LatestRows(changeable_user_properties, k) # {} =>
                          /\ k \in DOMAIN last_change
                          /\ last_change[k] \in LatestRows(changeable_user_properties, k)

\* a call for null and a user has returned, each with an older and a newer
\* row stored, and a row was stored between its two statements
C34_Witness ==
    /\ LatestCalled
    /\ repo.status = "returned"
    /\ Range(repo.ids) = {None, 1}
    /\ DOMAIN last_change = {None, 1}
    /\ \E r \in Range(changeable_user_properties) :
          r.ehr_id = None /\ r.event_time < last_change[None].event_time
    /\ Len(changeable_user_properties) = 3
    /\ Len(repo.statements) = 2
    /\ repo.statements[1].seen < repo.statements[2].seen

\* --------------------------------------------------------------- C35
\* the update_migrated_batch calls of the run that were handed the uuid
MarksOf(u) ==
    {k \in DOMAIN hist.marks :
        \E i \in DOMAIN hist.marks[k].uuids : hist.marks[k].uuids[i] = u}

\* C35: in a staging run every call of update_migrated_batch is handed the
\* uuids of the rows of the flush made just before it, each once; no uuid is
\* handed to two calls; a row the run has processed and flushed was handed to
\* exactly one call, a row still buffered to none; and once a day has ended
\* without error none of its rows is left with migrated = false.
C35_MarkedOncePerFlush ==
    StagingRun =>
        /\ hist.updates = Len(hist.marks)
        /\ \A k \in DOMAIN hist.marks :
              /\ Range(hist.marks[k].uuids) = hist.marks[k].flush
              /\ \A i, j \in DOMAIN hist.marks[k].uuids :
                    hist.marks[k].uuids[i] = hist.marks[k].uuids[j] => i = j
              /\ \A i \in DOMAIN hist.marks[k].uuids :
                    /\ DayOf(StagingRowOf(hist.marks[k].uuids[i]).event_time)
                          = hist.marks[k].day
                    /\ StagingRowOf(hist.marks[k].uuids[i]).migrated
        /\ \A i \in DOMAIN hist.order :
              /\ Cardinality(MarksOf(hist.order[i].uuid))
                     = (IF StagingRowOf(hist.order[i].uuid).migrated THEN 1 ELSE 0)
              /\ pc = "tmp_table" =>
                     (StagingRowOf(hist.order[i].uuid).migrated
                         <=> hist.order[i].uuid \notin Range(batch_uuids))
              /\ hist.order[i].day < current_day =>
                     Cardinality(MarksOf(hist.order[i].uuid)) = 1
        /\ \A r \in Range(tmp_user_properties) :
              (DayOf(r.event_time) \in start..(current_day - 1)) => r.migrated
        /\ runs = 1 =>
              \A r \in Range(tmp_user_properties) :
                  r.migrated <=> MarksOf(r.uuid) # {}

\* two days have ended, the first after a marking that followed the flush
\* after the loop, the second after one on the size trigger
C35_Witness ==
    /\ StagingRun
    /\ pc = "select"
    /\ batch_size = 2
    /\ Len(hist.marks) = 2
    /\ hist.marks[1].day < hist.marks[2].day
    /\ Len(hist.marks[1].uuids) = 1
    /\ Len(hist.marks[2].uuids) = 2

\* --------------------------------------------------------------- C36
\* the rows the current call inserted for the ehr_id, oldest first
AddedFor(eid) == SelectSeq(AddedChangeable, LAMBDA r : r.ehr_id = eid)

EhrIds == {None} \cup {changeable_user_properties[i].ehr_id :
                         i \in DOMAIN changeable_user_properties}
                 \cup DOMAIN last_change \cup DOMAIN hist.preloaded

\* C36: within one call, for every ehr_id, null included, two rows the call
\* inserted one after the other for it differ outside uuid, event_time and
\* session_id, and the first differs from the preloaded row of the ehr_id
\* when there is one; last_change holds for an ehr_id the last row the call
\* inserted for it, and what was preloaded for an ehr_id it inserted none for.
C36_NoConsecutiveEqual ==
    runs > 0 =>
        \A eid \in EhrIds :
            LET added == AddedFor(eid)
            IN /\ \A i \in 1..(Len(added) - 1) : ~SameState(added[i], added[i + 1])
               /\ (added # <<>> /\ eid \in DOMAIN hist.preloaded) =>
                     ~SameState(hist.preloaded[eid], added[1])
               /\ added # <<>> =>
                     /\ eid \in DOMAIN last_change
                     /\ last_change[eid] = added[Len(added)]
               /\ added = <<>> =>
                     /\ eid \in DOMAIN last_change <=> eid \in DOMAIN hist.preloaded
                     /\ eid \in DOMAIN last_change =>
                           last_change[eid] = hist.preloaded[eid]

\* a second call preloaded the row of a user, left a candidate equal to it
\* out and inserted the next one, which differed
C36_Witness ==
    /\ runs = 2
    /\ 1 \in DOMAIN hist.preloaded
    /\ Len(AddedFor(1)) = 1
    /\ ~SameState(hist.preloaded[1], AddedFor(1)[1])
    /\ \E u \in hist.flushed :
          \A i \in DOMAIN AddedChangeable : AddedChangeable[i].uuid # u
    /\ last_change[1] = AddedFor(1)[1]

\* --------------------------------------------------------------- C37
\* an archive call stopped at a line of its slice
StoppedAtLine ==
    pc = "idle" /\ runs > 0 /\ source_type = "amplitude" /\ pos < Len(rows)

\* C37: an archive call that stops at a line no record can be built from,
\* a line that is JSON and no object included, ends as an interruption that
\* reports failed_line, with the clean buffers flushed, and never as the
\* error of status 500.
C37_ControlledInterruption ==
    StoppedAtLine =>
        /\ outcome.status = "interrupted"
        /\ outcome.status_code # 500
        /\ outcome.failed_line # <<>>
        /\ pending_permanent = <<>>
        /\ pending_changeable = <<>>

\* the call stopped at a line that is JSON and no object, after a clean line
\* it had buffered
C37_Witness ==
    /\ StoppedAtLine
    /\ rows[pos + 1].json
    /\ ~rows[pos + 1].object
    /\ pos >= 1
    /\ pending_changeable # <<>>
    /\ outcome.status = "error"

\* ------------------------------------------------- the repository singleton
\* get_repository is called at the head of process_source (orchestrator.py
\* 74), on the thread the server runs the request on; the statements of one
\* call interleave with those of the calls on the other threads.
NewCaller == [pc |-> "idle", made |-> None, got |-> <<>>]

besides_singleton ==
    <<repo, borrowed, transform_call, transformed, settings_db, s3, orchestrator>>

\* `_repository_instance is None`, 397
instance_is_none(instance) == instance = None

\* if _repository_instance is None, 397
GetRepositoryTest(t) ==
    /\ singleton.callers[t].pc = "idle"
    /\ Len(singleton.callers[t].got) < MaxCalls
    /\ singleton' =
          [singleton EXCEPT
              !.callers[t].pc = IF instance_is_none(singleton.instance)
                                THEN "construct" ELSE "return"]
    /\ UNCHANGED besides_singleton

\* DBRepository(): ThreadedConnectionPool(...) opens a pool of its own, 34-44
GetRepositoryConstruct(t) ==
    /\ singleton.callers[t].pc = "construct"
    /\ singleton' = [singleton EXCEPT !.pools = @ + 1,
                                      !.callers[t].made = singleton.pools + 1,
                                      !.callers[t].pc = "store"]
    /\ UNCHANGED besides_singleton

\* _repository_instance = <the new object>, 398
GetRepositoryStore(t) ==
    /\ singleton.callers[t].pc = "store"
    /\ singleton' = [singleton EXCEPT !.instance = singleton.callers[t].made,
                                      !.callers[t].pc = "return"]
    /\ UNCHANGED besides_singleton

\* return _repository_instance, 400: the global is read again
GetRepositoryReturn(t) ==
    /\ singleton.callers[t].pc = "return"
    /\ singleton' = [singleton EXCEPT
                        !.callers[t].got = Append(@, singleton.instance),
                        !.callers[t].pc = "idle"]
    /\ UNCHANGED besides_singleton

\* close_repository, 403-409, run by the shutdown of the application
\* (main.py 46) once no request is under way
CloseRepository ==
    /\ \A t \in DOMAIN singleton.callers : singleton.callers[t].pc = "idle"
    /\ singleton.instance # None
    /\ singleton' = [singleton EXCEPT !.closed = @ \cup {singleton.instance},
                                      !.instance = None,
                                      !.callers = [t \in DOMAIN @ |->
                                                      [@[t] EXCEPT !.pc = "stopped"]]]
    /\ UNCHANGED besides_singleton

InitSingleton ==
    /\ singleton = [NoSingleton EXCEPT !.callers = [t \in Workers |-> NewCaller]]
    /\ s3 = S3Client
    /\ settings_db = settings
    /\ repo = NoCall
    /\ borrowed = 0
    /\ transform_call = NoTransform
    /\ transformed = NotTransformed
    /\ workers = NoWorkers
    /\ reader = NoReader
    /\ lines = <<>>
    /\ tmp_user_properties = <<>>
    /\ submitted = <<>>
    /\ batch_size = 1
    /\ InitRun

NextSingleton ==
    \/ \E t \in Workers : GetRepositoryTest(t)
    \/ \E t \in Workers : GetRepositoryConstruct(t)
    \/ \E t \in Workers : GetRepositoryStore(t)
    \/ \E t \in Workers : GetRepositoryReturn(t)
    \/ CloseRepository

SpecSingleton == InitSingleton /\ [][NextSingleton]_vars

\* --------------------------------------------------------------- C38
\* the instances get_repository handed out
Handed == UNION {Range(singleton.callers[t].got) : t \in DOMAIN singleton.callers}

\* C38: up to close_repository every call of get_repository returns the same
\* instance, also when the first calls run side by side on several threads:
\* no more than one pool is made.
C38_OnePool ==
    /\ singleton.pools <= 1
    /\ Cardinality(Handed) <= 1

\* two threads found the global empty and each made a pool; the pool of the
\* first is held by nothing and is not the one close_repository closes
C38_Witness ==
    /\ singleton.pools = 2
    /\ singleton.closed = {2}
    /\ Cardinality(Handed) = 2

\* --------------------------------------------------------------- C39
\* the positions of the staging table whose flag the step changes
Flipped ==
    {i \in DOMAIN tmp_user_properties :
        tmp_user_properties'[i].migrated # tmp_user_properties[i].migrated}

\* C39: a step changes nothing of the staging table but the migrated flag,
\* changes it from false to true only, and only on rows the staging call
\* processed in the current day; a step of an archive call leaves the table
\* as it is.
C39_MigratedFrame ==
    [][/\ DOMAIN tmp_user_properties' = DOMAIN tmp_user_properties
       /\ \A i \in DOMAIN tmp_user_properties :
             /\ [tmp_user_properties'[i] EXCEPT
                    !.migrated = tmp_user_properties[i].migrated]
                = tmp_user_properties[i]
             /\ tmp_user_properties[i].migrated => tmp_user_properties'[i].migrated
       /\ \A i \in Flipped :
             /\ source_type = "tmp_table"
             /\ DayOf(tmp_user_properties[i].event_time) = current_day
             /\ \E j \in 1..pos' : rows[j].uuid = tmp_user_properties[i].uuid
       /\ source_type' = "amplitude" => UNCHANGED tmp_user_properties]_vars

\* after an archive call, a staging call marked the rows of a day while a
\* row of an earlier day, which it did not process, stays unmigrated
C39_Witness ==
    /\ runs = 2
    /\ prev.source_type = "amplitude"
    /\ source_type = "tmp_table"
    /\ hist.marks # <<>>
    /\ \E i, j \in DOMAIN tmp_user_properties :
          /\ tmp_user_properties[i].migrated
          /\ ~tmp_user_properties[j].migrated
          /\ DayOf(tmp_user_properties[j].event_time) < start

\* --------------------------------------------------------------- C40
\* safety_factor in (0, 1], max_rows_per_insert >= 1 and max_params_per_query
\* no less than the number of columns of the table
SettingsInRange(table) ==
    /\ settings_db.safety_num \in 1..SafetyDen
    /\ configured_max >= 1
    /\ settings_db.max_params_per_query >= ColumnCount(table)

\* C40: under such a configuration the number of rows per statement is at
\* least 1, so insert_batch on rows that are not empty does not fail on its
\* range and, once it returned, its statements hold every row.
C40_RowsPerBatchPositive ==
    (/\ InsertBatch
     /\ repo.rows # <<>>
     /\ SettingsInRange(repo.table)) =>
        /\ max_rows_for_table(repo.table) >= 1
        /\ repo.error # "ValueError"
        /\ repo.status = "returned" => Concatenated(repo.statements) = repo.rows

\* max_params_per_query = 20 and safety_factor 0.9 on the 18 columns of
\* changeable_user_properties: one row fits, int(1 * 0.9) = 0 and the
\* range of insert_batch raises
C40_Witness ==
    /\ InsertBatch
    /\ repo.table = "changeable_user_properties"
    /\ repo.rows # <<>>
    /\ SettingsInRange(repo.table)
    /\ settings_db.max_params_per_query = 20
    /\ max_rows_for_table(repo.table) = 0
    /\ repo.status = "raised"
    /\ repo.error = "ValueError"

====
